---- MODULE Spec2Model ----
(***************************************************************************)
(* A model of the sales dashboard (src/app.py): the signed API client with *)
(* its pagination loop and persistent file cache, the refresh action, the  *)
(* authentication gate of main(), and the period calculator that feeds the *)
(* cache keys.                                                             *)
(*                                                                         *)
(* One browser session ("main") is modelled step by step.  Other sessions  *)
(* of the same deployment share only the cache directory; their effect on  *)
(* it (save_to_cache and the refresh button's unlink loop) is modelled by  *)
(* the Other* actions, which run the same code lines concurrently.         *)
(***************************************************************************)
EXTENDS Integers, Sequences, FiniteSets, TLC

(***************************************************************************)
(* Bounds of the model.                                                    *)
(***************************************************************************)
\* hours the wall clock may advance during a run
MaxClock == 2
\* user interactions with the main session, each a script run (Spec)
MaxRenders == 2
\* direct calls of a fetch operation (SpecClient)
MaxCalls == 2
\* disturbances of the cache directory per run: a failed open, read, write or
\* unlink of the main session, or a file another session opens or unlinks
MaxFaults == 1
\* largest NumberOfPages the server reports
MaxPages == 2
\* most records in the Items list of one page
MaxItems == 1
\* the reference dates of the period calculator: every day of these years
FirstYear == 2023
LastYear == 2025
\* the longest record set handed to the aggregation functions
MaxOrders == 2
\* the longest credit-note set of a period
MaxNotes == 1

(***************************************************************************)
(* Calendar arithmetic of datetime / timedelta, and strftime('%Y-%m-%d').  *)
(***************************************************************************)
IsLeap(y) == (y % 4 = 0 /\ y % 100 # 0) \/ y % 400 = 0

DaysInMonth(y, m) ==
    IF m = 2 THEN (IF IsLeap(y) THEN 29 ELSE 28)
    ELSE IF m \in {4, 6, 9, 11} THEN 30 ELSE 31

Date(y, m, d) == [y |-> y, m |-> m, d |-> d]

\* datetime.replace(day=...) raises ValueError when the month has no such day
AnyDay(t) == TRUE

IsValidDate(t) == t.m \in 1..12 /\ t.d >= 1 /\ t.d <= DaysInMonth(t.y, t.m)

AddDaysSameMonth(t, n) == Date(t.y, t.m, t.d + n)

RECURSIVE AddDays(_, _)
\* date + timedelta(days=n), n >= 0, a month at a time
AddDays(t, n) ==
    LET \* date + timedelta(days=1)
        NextDay(day) ==
            IF day.d < DaysInMonth(day.y, day.m) THEN Date(day.y, day.m, day.d + 1)
            ELSE IF day.m < 12 THEN Date(day.y, day.m + 1, 1)
            ELSE Date(day.y + 1, 1, 1)
    IN
        IF t.d + n <= DaysInMonth(t.y, t.m) THEN Date(t.y, t.m, t.d + n)
        ELSE AddDays(NextDay(Date(t.y, t.m, DaysInMonth(t.y, t.m))),
                     n - (DaysInMonth(t.y, t.m) - t.d) - 1)

RECURSIVE DaysBeforeMonth(_, _)
DaysBeforeMonth(y, m) ==
    IF m = 1 THEN 0 ELSE DaysBeforeMonth(y, m - 1) + DaysInMonth(y, m - 1)

\* date.toordinal(): days since 0001-01-01, that day being 1
Ordinal(t) ==
    LET p == t.y - 1
    IN  p * 365 + (p \div 4) - (p \div 100) + (p \div 400)
          + DaysBeforeMonth(t.y, t.m) + t.d

Digit(n) == <<"0", "1", "2", "3", "4", "5", "6", "7", "8", "9">>[n + 1]

Pad2(n) == Digit((n \div 10) % 10) \o Digit(n % 10)

\* date.strftime('%Y-%m-%d')
Strftime(t) ==
    LET Pad4(n) == Pad2(n \div 100) \o Pad2(n % 100)
    IN
        Pad4(t.y) \o "-" \o Pad2(t.m) \o "-" \o Pad2(t.d)

(***************************************************************************)
(* Period calculator of main(): the four date strings of a render.         *)
(***************************************************************************)
MonthlyPeriods(today) ==
    LET \* date - timedelta(days=1)
        PrevDay(t) ==
            IF t.d > 1 THEN Date(t.y, t.m, t.d - 1)
            ELSE IF t.m > 1 THEN Date(t.y, t.m - 1, DaysInMonth(t.y, t.m - 1))
            ELSE Date(t.y - 1, 12, 31)
    IN
        LET previous_month == PrevDay(Date(today.y, today.m, 1))
            replaced == Date(previous_month.y, previous_month.m, today.d)
        IN  [current_start  |-> Strftime(Date(today.y, today.m, 1)),
             current_end    |-> Strftime(today),
             previous_start |-> Strftime(Date(previous_month.y, previous_month.m, 1)),
             \* replace(day=today.day) raises ValueError when the day does not exist
             previous_end   |-> IF IsValidDate(replaced) THEN Strftime(replaced)
                                ELSE Strftime(previous_month)]

QuarterlyPeriods(today) ==
    LET \* (a - b).days
        DaysBetween(a, b) == Ordinal(a) - Ordinal(b)
    IN
        LET quarter == (today.m - 1) \div 3
            quarter_start_month == quarter * 3 + 1
            quarter_start_date == Date(today.y, quarter_start_month, 1)
            days_into_quarter == DaysBetween(today, quarter_start_date)
            prev_year == IF quarter = 0 THEN today.y - 1 ELSE today.y
            prev_quarter == IF quarter = 0 THEN 3 ELSE quarter - 1
            prev_quarter_start_date == Date(prev_year, prev_quarter * 3 + 1, 1)
        IN  [current_start  |-> Strftime(quarter_start_date),
             current_end    |-> Strftime(today),
             previous_start |-> Strftime(prev_quarter_start_date),
             previous_end   |-> Strftime(AddDays(prev_quarter_start_date, days_into_quarter))]

Periods(period, today) ==
    IF period = "Monthly" THEN MonthlyPeriods(today) ELSE QuarterlyPeriods(today)

(***************************************************************************)
(* Python values.  A value that may be None is a record with a null flag;  *)
(* a JSON object is a record that lists the keys it holds.                 *)
(***************************************************************************)
PyNone == [null |-> TRUE, v |-> <<>>]

PyList(l) == [null |-> FALSE, v |-> l]

\* the JSON objects a Pagination slot may hold: null, {} and {"NumberOfPages": n}
NullPagination == [null |-> TRUE, keys |-> {}, NumberOfPages |-> 0]

EmptyDict == [null |-> FALSE, keys |-> {}, NumberOfPages |-> 0]

PageCount(n) == [null |-> FALSE, keys |-> {"NumberOfPages"}, NumberOfPages |-> n]

\* dict.get(key, default): the default only when the key is absent
DictGet(d, k, default) == IF k \in d.keys THEN d[k] ELSE default

(***************************************************************************)
(* Persistent cache: file names and freshness.                             *)
(***************************************************************************)
\* CACHE_DIR / f"{cache_key}.pkl"
get_cache_file(cache_key) == ".cache/" \o cache_key \o ".pkl"

\* default of load_from_cache's max_age_hours parameter
max_age_hours == 2

\* timedelta.total_seconds() of an age of h clock hours
TotalSeconds(h) == h * 3600

\* file_age.total_seconds() < max_age_hours * 3600
IsFreshLE(file_age) == TotalSeconds(file_age) <= max_age_hours * 3600

IsFresh(file_age) == TotalSeconds(file_age) < max_age_hours * 3600

\* "if cached_data is not None": an empty list is a hit
IsHitTruthy(cached_data) == ~cached_data.null /\ cached_data.v # <<>>

IsHit(cached_data) == ~cached_data.null

(***************************************************************************)
(* The four fetch operations: cache key, endpoint and query parameters.    *)
(***************************************************************************)
GetSalesOrders(s, e) == [name |-> "get_sales_orders", start |-> s, end |-> e]
GetCreditNotes(s, e) == [name |-> "get_credit_notes", start |-> s, end |-> e]
GetProducts == [name |-> "get_products", start |-> "", end |-> ""]
GetSalespersons == [name |-> "get_salespersons", start |-> "", end |-> ""]

\* cache_key = f"sales_orders_{start_date}_{end_date}" and its three siblings
CacheKeyNoStart(op) ==
    IF op.name = "get_sales_orders"
      THEN "sales_orders_" \o op.end
    ELSE IF op.name = "get_credit_notes"
      THEN "credit_notes_" \o op.end
    ELSE IF op.name = "get_products" THEN "products_all"
    ELSE "salespersons_all"

CacheKey(op) ==
    IF op.name = "get_sales_orders"
      THEN "sales_orders_" \o op.start \o "_" \o op.end
    ELSE IF op.name = "get_credit_notes"
      THEN "credit_notes_" \o op.start \o "_" \o op.end
    ELSE IF op.name = "get_products" THEN "products_all"
    ELSE "salespersons_all"

Endpoint(op) ==
    IF op.name = "get_sales_orders" THEN "/SalesOrders"
    ELSE IF op.name = "get_credit_notes" THEN "/CreditNotes"
    ELSE IF op.name = "get_products" THEN "/Products"
    ELSE "/SalesPersons"

(***************************************************************************)
(* The request of _make_request.  A text is a sequence of pieces: a piece  *)
(* is a run of letters, digits, '-', '_' and '.', or one other character.  *)
(***************************************************************************)
\* st.secrets['unleashed']['api_id'] and ['api_key']
api_id == "api_id"

api_key == "api_key"

base_url == "https://api.unleashedsoftware.com"

\* the query parameters of a fetch operation, in the order of the dict
ParamsOf(o) ==
    IF o.name = "get_sales_orders"
      THEN << <<"completedAfter", <<o.start>> >>, <<"completedBefore", <<o.end>> >>,
              <<"orderStatus", <<"Completed">> >> >>
    ELSE IF o.name = "get_credit_notes"
      THEN << <<"startDate", <<o.start>> >>, <<"endDate", <<o.end>> >> >>
    ELSE <<>>

\* the parameters without the page
SameParams(params, page) == params

\* current_params = params.copy() if params else {}; current_params['page'] = page
CurrentParams(params, page) ==
    LET \* str(page)
        Str(n) == IF n < 10 THEN <<Digit(n)>> ELSE <<Digit(n \div 10) \o Digit(n % 10)>>
    IN
        Append(params, <<"page", Str(page)>>)

quote_plus(text) ==
    LET \* quote_plus: a space becomes '+', another character that is not safe its escape
        QuotePlusOf ==
            [c \in {" ", "&", "=", "+", "%", "/", ":", ",", "?", "#"} |->
                CASE c = " " -> "+"   [] c = "&" -> "%26" [] c = "=" -> "%3D" [] c = "+" -> "%2B"
                  [] c = "%" -> "%25" [] c = "/" -> "%2F" [] c = ":" -> "%3A" [] c = "," -> "%2C"
                  [] c = "?" -> "%3F" [] c = "#" -> "%23"]
    IN
        [i \in DOMAIN text |->
            IF text[i] \in DOMAIN QuotePlusOf THEN QuotePlusOf[text[i]] ELSE text[i]]

RECURSIVE urlencode(_)
\* urlencode(params): key=value pairs joined by '&'
urlencode(params) ==
    IF params = <<>> THEN <<>>
    ELSE LET pair == params[Len(params)]
             before == urlencode(SubSeq(params, 1, Len(params) - 1))
         IN  (IF before = <<>> THEN <<>> ELSE before \o <<"&">>)
               \o quote_plus(<<pair[1]>>) \o <<"=">> \o quote_plus(pair[2])

requote_uri(url) ==
    LET \* requests.get prepares the URL: a character that is illegal in a URL is escaped
        RequoteOf ==
            [c \in {" ", "<", ">", "|", "^"} |->
                CASE c = " " -> "%20" [] c = "<" -> "%3C" [] c = ">" -> "%3E" [] c = "|" -> "%7C"
                  [] c = "^" -> "%5E"]
    IN
        [i \in DOMAIN url |-> IF url[i] \in DOMAIN RequoteOf THEN RequoteOf[url[i]] ELSE url[i]]

\* base64 of the HMAC-SHA256 of the message under the key
_generate_signature(key, query_string) ==
    [base64 |-> [hmac |-> "sha256", key |-> key, message |-> query_string]]

\* what _make_request sends: the URL and the headers of requests.get
_make_request(endpoint, params) ==
    LET query_string == IF params # <<>> THEN urlencode(params) ELSE <<>>
        signature == _generate_signature(api_key, query_string)
        full_url == <<base_url, endpoint>>
                      \o (IF query_string # <<>> THEN <<"?">> \o query_string ELSE <<>>)
    IN  [url |-> requote_uri(full_url),
         headers |-> [Accept |-> "application/json", api_auth_id |-> api_id,
                      api_auth_signature |-> signature]]

(***************************************************************************)
(* Decisions of _make_request and get_all_pages.                           *)
(***************************************************************************)
\* response.raise_for_status(): 4xx and 5xx raise HTTPError
RaisesNever(status) == FALSE

RaisesForStatus(status) == status >= 400 /\ status < 600

\* items = data.get('Items', [])
ItemsOf(data) == DictGet(data, "Items", <<>>)

\* "if not items: break"
NotItems(items) == Len(items) = 0

\* all_items.extend(items)
ExtendFront(all_items, items) == items \o all_items

Extend(all_items, items) == all_items \o items

\* pagination = data.get('Pagination', {})
PaginationOf(data) == DictGet(data, "Pagination", EmptyDict)

\* pagination.get(...) on None raises AttributeError
PaginationRaises(pagination) == pagination.null

\* "if page >= pagination.get('NumberOfPages', 1): break"
IsLastPageGT(page, pagination) == page > DictGet(pagination, "NumberOfPages", 1)

IsLastPage(page, pagination) == page >= DictGet(pagination, "NumberOfPages", 1)

StayOnPage(page) == page

\* page += 1
NextPage(page) == page + 1

(***************************************************************************)
(* The upstream API: any response to any request.                          *)
(***************************************************************************)
\* the server's records: record i of page p
Record(p, i) == 10 * p + i

\* the Items lists the server may send for page p: its first n records
ItemsOn(p) == {[i \in 1..n |-> Record(p, i)] : n \in 0..MaxItems}

Body(keys, items, pagination) ==
    [keys |-> keys, Items |-> items, Pagination |-> pagination]

\* a JSON body for page p that holds Items, Pagination, both or neither
Bodies(p) ==
    LET PagValues == {NullPagination, EmptyDict} \cup {PageCount(n) : n \in 0..MaxPages}
    IN
        {Body({"Items", "Pagination"}, i, g) : i \in ItemsOn(p), g \in PagValues}
          \cup {Body({"Items"}, i, EmptyDict) : i \in ItemsOn(p)}
          \cup {Body({"Pagination"}, <<>>, PageCount(MaxPages)), Body({}, <<>>, EmptyDict)}

\* any server
Responses(p) ==
    LET ErrorResponses ==
            LET Statuses == {200, 404, 500}
            IN
                {[status |-> c, body |-> Body({}, <<>>, EmptyDict)] : c \in Statuses \ {200}}
    IN
        {[status |-> 200, body |-> b] : b \in Bodies(p)} \cup ErrorResponses

\* a server whose every result is one full page, and which may fail
OnePageResponses(p) ==
    {[status |-> 200,
      body |-> Body({"Items", "Pagination"}, [i \in 1..MaxItems |-> Record(p, i)],
                    PageCount(1))],
     [status |-> 500, body |-> Body({}, <<>>, EmptyDict)]}

(***************************************************************************)
(* Records of the upstream API as the aggregation functions read them: an   *)
(* order or credit note is a JSON object with the keys it holds.           *)
(***************************************************************************)
NoCustomer == [keys |-> {}, CustomerCode |-> "", CustomerName |-> ""]

Customer(code, name) ==
    [keys |-> {"CustomerCode", "CustomerName"}, CustomerCode |-> code, CustomerName |-> name]

\* a Customer object that carries a name and no code
Nameless(name) == [keys |-> {"CustomerName"}, CustomerCode |-> "", CustomerName |-> name]

NoSalesPerson == [keys |-> {}, Guid |-> "", FullName |-> ""]

SalesPerson(guid, name) == [keys |-> {"Guid", "FullName"}, Guid |-> guid, FullName |-> name]

\* a product object, of an order line or of the catalog; keys tells which of the
\* slots the object holds
PricedProduct(keys, code, name, default_price, land_price) ==
    [keys |-> keys, ProductCode |-> code, ProductDescription |-> name,
     DefaultPurchasePrice |-> default_price, AverageLandPrice |-> land_price]

NoProduct == PricedProduct({}, "", "", 0, 0)

Product(code, name) == PricedProduct({"ProductCode", "ProductDescription"}, code, name, 0, 0)

\* an order line
CostedLine(keys, product, total, quantity, unit_cost) ==
    [keys |-> keys, Product |-> product, LineTotal |-> total,
     OrderQuantity |-> quantity, UnitCost |-> unit_cost]

Line(product, total) == CostedLine({"Product", "LineTotal"}, product, total, 0, 0)

\* a sales order or credit note; keys tells which of the slots the object holds
Order(keys, customer, salesperson, subtotal, lines) ==
    [keys |-> keys, Customer |-> customer, SalesPerson |-> salesperson,
     SubTotal |-> subtotal, SalesOrderLines |-> lines]

(***************************************************************************)
(* Aggregation functions.  Amounts are whole numbers; a percentage is the  *)
(* fraction num / den.                                                     *)
(***************************************************************************)
Fraction(num, den) == [num |-> num, den |-> den]

\* change / previous * 100, whatever previous is
Unguarded(current, previous) == Fraction((current - previous) * 100, previous)

\* "(change / previous * 100) if previous > 0 else (100 if current > 0 else 0)"
ChangePct(current, previous) ==
    IF previous > 0 THEN Fraction((current - previous) * 100, previous)
    ELSE IF current > 0 THEN Fraction(100, 1) ELSE Fraction(0, 1)

\* main: "(sales_change / previous_sales * 100) if previous_sales > 0 else 0"
SummaryChangePercent(current, previous) ==
    IF previous > 0 THEN Fraction((current - previous) * 100, previous)
    ELSE Fraction(0, 1)

\* len(orders)
CountOf(orders) == Len(orders)

RECURSIVE calculate_total_sales(_)
\* sum(order.get('SubTotal', 0) for order in orders)
calculate_total_sales(orders) ==
    IF orders = <<>> THEN 0
    ELSE calculate_total_sales(SubSeq(orders, 1, Len(orders) - 1))
           + DictGet(orders[Len(orders)], "SubTotal", 0)

\* the same sum over credit notes
calculate_total_credit_notes(credit_notes) == calculate_total_sales(credit_notes)

\* customer_code = order.get('Customer', {}).get('CustomerCode', 'Unknown')
AlwaysUnknown(order) == "Unknown"

CustomerCodeOf(order) ==
    DictGet(DictGet(order, "Customer", NoCustomer), "CustomerCode", "Unknown")

\* a dict as a function on its keys: d with key k set to v
DictSet(d, k, v) == [j \in DOMAIN d \cup {k} |-> IF j = k THEN v ELSE d[j]]

EmptyData == [j \in {} |-> 0]

RECURSIVE get_customer_revenue(_)
\* the loop of get_customer_revenue: customer code -> name of its first order, revenue
get_customer_revenue(orders) ==
    LET CustomerNameOf(order) ==
            DictGet(DictGet(order, "Customer", NoCustomer), "CustomerName", "Unknown")
    IN
        IF orders = <<>> THEN EmptyData
        ELSE LET customer_data == get_customer_revenue(SubSeq(orders, 1, Len(orders) - 1))
                 order == orders[Len(orders)]
                 customer_code == CustomerCodeOf(order)
                 seen == IF customer_code \in DOMAIN customer_data
                           THEN customer_data[customer_code]
                           ELSE [name |-> CustomerNameOf(order), revenue |-> 0]
             IN  DictSet(customer_data, customer_code,
                         [name |-> seen.name,
                          revenue |-> seen.revenue + DictGet(order, "SubTotal", 0)])

DataMissing(data, code) == [name |-> "Unknown", revenue |-> 0]

\* dict.get(customer_code, {'name': 'Unknown', 'revenue': 0})
DataGet(data, code) ==
    IF code \in DOMAIN data THEN data[code] ELSE [name |-> "Unknown", revenue |-> 0]

\* one row of the comparison; code is history, the source keeps the name only
ComparisonRow(current_data, previous_data, code) ==
    LET current == DataGet(current_data, code)
        previous == DataGet(previous_data, code)
    IN  [code |-> code,
         Customer |-> IF current.name # "Unknown" THEN current.name ELSE previous.name,
         CurrentRevenue |-> current.revenue,
         PreviousRevenue |-> previous.revenue,
         Change |-> current.revenue - previous.revenue,
         ChangePct |-> ChangePct(current.revenue, previous.revenue)]

\* set(current_data.keys()) | set(previous_data.keys())
AllKeys(current_data, previous_data) == DOMAIN current_data \cup DOMAIN previous_data

\* the orders in which "for customer_code in all_customers" may visit a set
Iterations(keys) ==
    {o \in [1..Cardinality(keys) -> keys] : \A i, j \in DOMAIN o : i # j => o[i] # o[j]}

\* "comparison": one row per key, in the order the set is iterated
Comparison(current_orders, previous_orders, iteration) ==
    LET current_data == get_customer_revenue(current_orders)
        previous_data == get_customer_revenue(previous_orders)
    IN  [i \in DOMAIN iteration |-> ComparisonRow(current_data, previous_data, iteration[i])]

FirstRow(df, column) == 1

\* the row of df that nlargest takes next: the first of those with the largest value
FirstLargest(df, column) ==
    CHOOSE i \in DOMAIN df :
        /\ \A j \in DOMAIN df : df[j][column] <= df[i][column]
        /\ \A j \in 1..i - 1 : df[j][column] < df[i][column]

FirstSmallest(df, column) ==
    CHOOSE i \in DOMAIN df :
        /\ \A j \in DOMAIN df : df[j][column] >= df[i][column]
        /\ \A j \in 1..i - 1 : df[j][column] > df[i][column]

Without(df, i) == SubSeq(df, 1, i - 1) \o SubSeq(df, i + 1, Len(df))

RECURSIVE nlargest(_, _, _)
\* DataFrame.nlargest(limit, column), keep='first'
nlargest(df, n, column) ==
    IF n = 0 \/ df = <<>> THEN <<>>
    ELSE <<df[FirstLargest(df, column)]>>
           \o nlargest(Without(df, FirstLargest(df, column)), n - 1, column)

RECURSIVE nsmallest(_, _, _)
\* DataFrame.nsmallest(limit, column), keep='first'
nsmallest(df, n, column) ==
    IF n = 0 \/ df = <<>> THEN <<>>
    ELSE <<df[FirstSmallest(df, column)]>>
           \o nsmallest(Without(df, FirstSmallest(df, column)), n - 1, column)

\* pd.DataFrame([]) has no columns: selecting by one raises KeyError
NoColumns(comparison) == comparison = <<>>

\* get_top_customers_comparison after its loop: the top limit rows, or KeyError
get_top_customers_comparison(comparison, limit) ==
    IF NoColumns(comparison) THEN [raised |-> "KeyError", df |-> <<>>]
    ELSE [raised |-> "", df |-> nlargest(comparison, limit, "CurrentRevenue")]

\* compare_customer_growth after its loop: (growth, decline), or KeyError.
\* nlargest and nsmallest rank by Change and do not look at its sign.
Growth(comparison, limit) == nlargest(comparison, limit, "Change")

Decline(comparison, limit) == nsmallest(comparison, limit, "Change")

compare_customer_growth(comparison, limit) ==
    IF NoColumns(comparison) THEN [raised |-> "KeyError", growth |-> <<>>, decline |-> <<>>]
    ELSE [raised |-> "", growth |-> Growth(comparison, limit),
          decline |-> Decline(comparison, limit)]

RECURSIVE SalespersonData(_)
\* the loop of get_salesperson_revenue; the dict keeps its keys in insertion order
SalespersonData(orders) ==
    LET \* where sp_code is in salesperson_data, 0 when it is not
        IndexOf(salesperson_data, sp_code) ==
            IF \E i \in DOMAIN salesperson_data : salesperson_data[i].code = sp_code
              THEN CHOOSE i \in DOMAIN salesperson_data : salesperson_data[i].code = sp_code
              ELSE 0
    IN
        LET \* "if not salesperson: continue": a missing or empty SalesPerson object
            NotSalesperson(salesperson) == salesperson.keys = {}
        IN
            IF orders = <<>> THEN <<>>
            ELSE LET salesperson_data == SalespersonData(SubSeq(orders, 1, Len(orders) - 1))
                     order == orders[Len(orders)]
                     salesperson == DictGet(order, "SalesPerson", NoSalesPerson)
                     sp_code == DictGet(salesperson, "Guid", "Unknown")
                     sp_name == DictGet(salesperson, "FullName", "Unknown")
                     subtotal == DictGet(order, "SubTotal", 0)
                     i == IndexOf(salesperson_data, sp_code)
                 IN  IF NotSalesperson(salesperson) THEN salesperson_data
                     ELSE IF i = 0
                       THEN Append(salesperson_data,
                                   [code |-> sp_code, Salesperson |-> sp_name,
                                    Revenue |-> subtotal, Orders |-> 1])
                     ELSE [salesperson_data EXCEPT ![i].Revenue = @ + subtotal,
                                                   ![i].Orders = @ + 1]

\* the DataFrame of get_salesperson_revenue, sorted by Revenue, largest first
get_salesperson_revenue(orders) ==
    nlargest(SalespersonData(orders), Len(SalespersonData(orders)), "Revenue")

\* one row of the merge; a side that has no row of that name is filled with 0
MergedRow(name, revenue_current, revenue_previous) ==
    [Salesperson |-> name,
     Revenue_current |-> revenue_current,
     Revenue_previous |-> revenue_previous,
     RevenueChange |-> revenue_current - revenue_previous,
     ChangePct |-> ChangePct(revenue_current, revenue_previous)]

Named(df, name) == SelectSeq(df, LAMBDA row : row.Salesperson = name)

RECURSIVE MergeLeft(_, _)
\* merge(on='Salesperson', how='outer'): each current row with each previous row
\* of the same name, or alone
MergeLeft(current, previous) ==
    IF current = <<>> THEN <<>>
    ELSE LET row == Head(current)
             same == Named(previous, row.Salesperson)
         IN  (IF same = <<>> THEN <<MergedRow(row.Salesperson, row.Revenue, 0)>>
              ELSE [i \in DOMAIN same |->
                       MergedRow(row.Salesperson, row.Revenue, same[i].Revenue)])
               \o MergeLeft(Tail(current), previous)

RECURSIVE AllLines(_)
\* "for order in orders: for line in order.get('SalesOrderLines', [])"
AllLines(orders) ==
    IF orders = <<>> THEN <<>>
    ELSE DictGet(Head(orders), "SalesOrderLines", <<>>) \o AllLines(Tail(orders))

RECURSIVE ProductRevenue(_)
\* the loop of get_product_revenue over the lines: product code -> name, revenue
ProductRevenue(lines) ==
    IF lines = <<>> THEN EmptyData
    ELSE LET product_data == ProductRevenue(SubSeq(lines, 1, Len(lines) - 1))
             line == lines[Len(lines)]
             product == DictGet(line, "Product", NoProduct)
             product_code == DictGet(product, "ProductCode", "Unknown")
             seen == IF product_code \in DOMAIN product_data THEN product_data[product_code]
                     ELSE [name |-> DictGet(product, "ProductDescription", "Unknown"),
                           revenue |-> 0]
         IN  DictSet(product_data, product_code,
                     [name |-> seen.name,
                      revenue |-> seen.revenue + DictGet(line, "LineTotal", 0)])

\* "comparison" of get_top_products_comparison: one row per product code, in the
\* order the set all_products is iterated
ProductComparison(current_orders, previous_orders, iteration) ==
    LET current_data == ProductRevenue(AllLines(current_orders))
        previous_data == ProductRevenue(AllLines(previous_orders))
    IN  [i \in DOMAIN iteration |->
            ComparisonRow(current_data, previous_data, iteration[i])]

\* get_top_products_comparison: the rows in iteration order, then the top limit
get_top_products_comparison(current_orders, previous_orders, iteration, limit) ==
    LET comparison == ProductComparison(current_orders, previous_orders, iteration)
    IN  IF NoColumns(comparison) THEN [raised |-> "KeyError", df |-> <<>>]
        ELSE [raised |-> "", df |-> nlargest(comparison, limit, "CurrentRevenue")]

RECURSIVE ProductCosts(_)
\* product_costs = {p['ProductCode']: p.get('DefaultPurchasePrice', 0) for p in ...}
ProductCosts(products_list) ==
    IF products_list = <<>> THEN EmptyData
    ELSE LET p == products_list[Len(products_list)]
         IN  DictSet(ProductCosts(SubSeq(products_list, 1, Len(products_list) - 1)),
                     p.ProductCode, DictGet(p, "DefaultPurchasePrice", 0))

\* a or b: b when a is 0
Or(a, b) == IF a # 0 THEN a ELSE b

\* line.get('UnitCost', 0) and nothing else
OwnUnitCost(line, product_costs) == DictGet(line, "UnitCost", 0)

\* the unit cost of a line: its own, or the first of the three fallbacks that is not 0
UnitCostOf(line, product_costs) ==
    LET unit_cost == DictGet(line, "UnitCost", 0)
        product_obj == DictGet(line, "Product", NoProduct)
        product_code == DictGet(product_obj, "ProductCode", "Unknown")
    IN  IF unit_cost = 0
          THEN Or(DictGet(product_obj, "DefaultPurchasePrice", 0),
                  Or(DictGet(product_obj, "AverageLandPrice", 0),
                     IF product_code \in DOMAIN product_costs
                       THEN product_costs[product_code] ELSE 0))
          ELSE unit_cost

RECURSIVE ProductMargin(_, _)
\* the loop of get_product_margin over the lines: product code -> name, margin, revenue
ProductMargin(lines, product_costs) ==
    IF lines = <<>> THEN EmptyData
    ELSE LET product_data == ProductMargin(SubSeq(lines, 1, Len(lines) - 1), product_costs)
             line == lines[Len(lines)]
             product == DictGet(line, "Product", NoProduct)
             product_code == DictGet(product, "ProductCode", "Unknown")
             line_total == DictGet(line, "LineTotal", 0)
             quantity == DictGet(line, "OrderQuantity", 0)
             total_cost == quantity * UnitCostOf(line, product_costs)
             margin == line_total - total_cost
             seen == IF product_code \in DOMAIN product_data THEN product_data[product_code]
                     ELSE [name |-> DictGet(product, "ProductDescription", "Unknown"),
                           margin |-> 0, revenue |-> 0]
         IN  DictSet(product_data, product_code,
                     [name |-> seen.name, margin |-> seen.margin + margin,
                      revenue |-> seen.revenue + line_total])

\* dict.get(product_code, {'name': 'Unknown', 'margin': 0, 'revenue': 0})
MarginGet(data, code) ==
    IF code \in DOMAIN data THEN data[code]
    ELSE [name |-> "Unknown", margin |-> 0, revenue |-> 0]

\* "(current_margin / current_rev * 100) if current_rev > 0 else 0"
MarginPct(current_margin, current_rev) ==
    IF current_rev > 0 THEN Fraction(current_margin * 100, current_rev) ELSE Fraction(0, 1)

\* "comparison" of get_top_products_by_margin_comparison, in iteration order
MarginComparison(current_orders, previous_orders, products_list, iteration) ==
    LET \* one row of the margin comparison; code is history
        MarginRow(current_data, previous_data, code) ==
            LET current == MarginGet(current_data, code)
                previous == MarginGet(previous_data, code)
            IN  [code |-> code,
                 Product |-> IF current.name # "Unknown" THEN current.name ELSE previous.name,
                 CurrentMargin |-> current.margin,
                 PreviousMargin |-> previous.margin,
                 MarginPct |-> MarginPct(current.margin, current.revenue),
                 Change |-> current.margin - previous.margin,
                 ChangePct |-> ChangePct(current.margin, previous.margin)]
    IN
        LET product_costs == ProductCosts(products_list)
            current_data == ProductMargin(AllLines(current_orders), product_costs)
            previous_data == ProductMargin(AllLines(previous_orders), product_costs)
        IN  [i \in DOMAIN iteration |-> MarginRow(current_data, previous_data, iteration[i])]

\* get_top_products_by_margin_comparison after its loop: the top limit, or KeyError
get_top_products_by_margin_comparison(comparison, limit) ==
    IF NoColumns(comparison) THEN [raised |-> "KeyError", df |-> <<>>]
    ELSE [raised |-> "", df |-> nlargest(comparison, limit, "CurrentMargin")]

\* the product codes of both periods
AllProducts(current_orders, previous_orders) ==
    AllKeys(ProductRevenue(AllLines(current_orders)), ProductRevenue(AllLines(previous_orders)))

\* the customer codes of both periods
AllCustomers(current_orders, previous_orders) ==
    AllKeys(get_customer_revenue(current_orders), get_customer_revenue(previous_orders))

(***************************************************************************)
(* main() after the data load: exclusion filter, summary, tables.          *)
(***************************************************************************)
EXCLUDED_CUSTOMERS == {"Virtugroup", "Fengrong"}

\* the default of the limit parameter of the comparison functions
limit == 10

KeepAll(records) == records

\* "[order for order in ... if ... not in EXCLUDED_CUSTOMERS]"
ExcludeFilter(records) ==
    LET \* order.get('Customer', {}).get('CustomerCode'): None when there is no code
        FilterCode(order) == DictGet(DictGet(order, "Customer", NoCustomer), "CustomerCode", "None")
    IN
        SelectSeq(records, LAMBDA order : FilterCode(order) \notin EXCLUDED_CUSTOMERS)

\* What a script run shows after a successful data load.  An exception of one of
\* the tables ends the run there: what comes after it in the script is not shown.
Dashboard(all_co, all_po, all_cc, all_pc, customers, products) ==
    LET \* main, "Salesperson Performance": the table, or the note that there is no data
        SalespersonComparison(current_orders, previous_orders) ==
            LET \* ... and the previous rows whose name no current row has
                MergeRight(current, previous) ==
                    LET alone == SelectSeq(previous, LAMBDA row : Named(current, row.Salesperson) = <<>>)
                    IN  [i \in DOMAIN alone |-> MergedRow(alone[i].Salesperson, 0, alone[i].Revenue)]
            IN
                LET current_sp_revenue == get_salesperson_revenue(current_orders)
                    previous_sp_revenue == get_salesperson_revenue(previous_orders)
                    merged == MergeLeft(current_sp_revenue, previous_sp_revenue)
                                \o MergeRight(current_sp_revenue, previous_sp_revenue)
                IN  IF Len(current_sp_revenue) > 0 /\ Len(previous_sp_revenue) > 0
                      THEN [info |-> FALSE, rows |-> nlargest(merged, Len(merged), "Revenue_current")]
                      ELSE [info |-> TRUE, rows |-> <<>>]
    IN
        LET \* "current_sales / len(current_orders) if current_orders else '$0'"
            AverageOrderValue(current_sales, current_orders) ==
                IF current_orders # <<>> THEN Fraction(current_sales, Len(current_orders))
                ELSE Fraction(0, 1)
        IN
            LET current_orders == ExcludeFilter(all_co)
                previous_orders == ExcludeFilter(all_po)
                current_credit_notes == ExcludeFilter(all_cc)
                previous_credit_notes == ExcludeFilter(all_pc)
                current_sales == calculate_total_sales(current_orders)
                previous_sales == calculate_total_sales(previous_orders)
                current_credit_total == calculate_total_credit_notes(current_credit_notes)
                previous_credit_total == calculate_total_credit_notes(previous_credit_notes)
                comparison == Comparison(current_orders, previous_orders, customers)
                top_customers == get_top_customers_comparison(comparison, limit)
                growth_decline == compare_customer_growth(comparison, limit)
                sp_comparison == SalespersonComparison(current_orders, previous_orders)
                top_products == get_top_products_comparison(current_orders, previous_orders,
                                                            products, limit)
                tables == top_customers.raised = ""
            IN  [what |-> "dashboard",
                 raised |-> IF ~tables THEN top_customers.raised ELSE top_products.raised,
                 current_sales |-> current_sales,
                 previous_sales |-> previous_sales,
                 previous_credit_total |-> previous_credit_total,
                 sales_change |-> current_sales - previous_sales,
                 sales_change_percent |-> SummaryChangePercent(current_sales, previous_sales),
                 orders_completed |-> Len(current_orders),
                 orders_delta |-> Len(current_orders) - Len(previous_orders),
                 current_credit_total |-> current_credit_total,
                 credit_change_percent |->
                     SummaryChangePercent(current_credit_total, previous_credit_total),
                 average_order_value |-> AverageOrderValue(current_sales, current_orders),
                 top_customers |-> top_customers.df,
                 growth |-> growth_decline.growth,
                 decline |-> growth_decline.decline,
                 sp_info |-> tables /\ sp_comparison.info,
                 sp_comparison |-> IF tables THEN sp_comparison.rows ELSE <<>>,
                 top_products |-> IF tables THEN top_products.df ELSE <<>>]

(***************************************************************************)
(* State.                                                                  *)
(***************************************************************************)
VARIABLES
    clock,        \* datetime.now(), in whole hours
    cache,        \* the files of CACHE_DIR: file name -> entry
    secrets,      \* st.secrets: which sections are configured
    today,        \* the calendar date of datetime.now()
    auth,         \* st.session_state['authentication_status']
    period,       \* the period radio
    pc,           \* where the main session's script run is
    err,          \* the exception that ended the run, "" when none
    renders,      \* script runs (or direct calls) of the main session so far
    idx,          \* which of the five fetches of the render is running; 0: a direct call
    op,           \* the fetch operation that is running
    page,         \* get_all_pages: page
    all_items,    \* get_all_pages: all_items
    file_age,     \* load_from_cache: file_age, in hours
    rets,         \* what the fetches of this run returned, in order
    globbed,      \* refresh: files CACHE_DIR.glob listed, not yet unlinked
    log,          \* history: the requests of the running fetch and their responses
    epoch,        \* history: refresh actions of the main session so far
    after,        \* history: the refresh before this run: none, empty, clean, failed
    faults,       \* disturbances of the cache directory so far
    otherOpen,    \* the cache file another session holds open for writing
    held,         \* load_from_cache: the file it has open, and what it has read
    dates,        \* main: current_start, current_end, previous_start, previous_end
    all_current_orders,         \* main: the record sets the fetches returned
    all_previous_orders,
    all_current_credit_notes,
    all_previous_credit_notes,
    shown         \* what the dashboard, or a directly called function, produced

\* the variables of the period calculator and of the aggregation functions
avars == <<dates, all_current_orders, all_previous_orders, all_current_credit_notes,
           all_previous_credit_notes, shown>>

vars == <<clock, cache, secrets, today, auth, period, pc, err, renders, idx, op, page,
          all_items, file_age, rets, globbed, log, epoch, after, faults,
          otherOpen, held, avars>>

\* reference dates of a run
Todays == {Date(2026, 3, 31)}

PeriodChoices == {"Monthly", "Quarterly"}

\* where a script run has ended and the next user interaction starts one
RestPcs == {"init", "config_error", "auth_error", "login_page", "creds_error",
            "error", "dashboard", "rerun"}

\* where a direct call of a fetch operation has ended
ClientRestPcs == {"client", "returned", "error"}

NoFile == [f |-> "", op |-> GetProducts, data |-> <<>>]

\* the fetches of a render, per period choice and reference date
PlanTable ==
    LET \* the five fetches of a render, in the order main() issues them
        FetchPlan(p) ==
            << GetSalesOrders(p.current_start, p.current_end),
               GetSalesOrders(p.previous_start, p.previous_end),
               GetProducts,
               GetCreditNotes(p.current_start, p.current_end),
               GetCreditNotes(p.previous_start, p.previous_end) >>
    IN
        [c \in PeriodChoices, t \in Todays |-> FetchPlan(Periods(c, t))]

Plan == PlanTable[period, today]

File == get_cache_file(CacheKey(op))

\* A cache file as writer who leaves it.  st, data and mtime are the file; w is who
\* holds it open for writing; q, by, n and ep are history: the fetch the data came
\* from, the session that wrote it, in which of its runs, after how many refreshes.
Entry(st, data, q, w, who) ==
    [st |-> st, data |-> data, mtime |-> clock, w |-> w,
     q |-> q, by |-> who, n |-> IF who = "main" THEN renders ELSE 0, ep |-> epoch]

Put(f, e) == [g \in DOMAIN cache \cup {f} |-> IF g = f THEN e ELSE cache[g]]

Remove(f) == [g \in DOMAIN cache \ {f} |-> cache[g]]

\* open(cache_file, 'wb') by writer who: the file is created or truncated
Truncated(f, q, who) ==
    Put(f, Entry("partial", <<>>, q,
                 (IF f \in DOMAIN cache THEN cache[f].w ELSE {}) \cup {who}, who))

\* pickle.dump and close by writer who; an unlinked file takes the bytes with it
Dumped(f, q, data, who, ok) ==
    IF f \in DOMAIN cache /\ who \in cache[f].w
      THEN Put(f, Entry(IF ok THEN "ok" ELSE "partial", IF ok THEN data ELSE <<>>,
                        q, cache[f].w \ {who}, who))
      ELSE cache

\* no file exists
NoEntry == [st |-> "none", data |-> <<>>, mtime |-> 0, w |-> {}, q |-> GetProducts,
            by |-> "", n |-> 0, ep |-> 0]

\* load_from_cache has no file open
NotHeld == [at |-> NoEntry, seen |-> <<>>, done |-> FALSE, gone |-> FALSE, cur |-> NoEntry]

\* no render and no call has run yet, and the cache directory is empty
Quiet ==
    /\ clock = 0
    /\ cache = [f \in {} |-> 0]
    /\ auth = "None"
    /\ period = "Monthly"
    /\ err = ""
    /\ renders = 0
    /\ op = GetProducts
    /\ page = 1
    /\ all_items = <<>>
    /\ file_age = 0
    /\ rets = <<>>
    /\ globbed = {}
    /\ log = <<>>
    /\ epoch = 0
    /\ after = "none"
    /\ faults = 0
    /\ otherOpen = NoFile
    /\ held = NotHeld

\* the period calculator has not run
NoDates == [current_start |-> "", current_end |-> "", previous_start |-> "",
            previous_end |-> ""]

Nothing == [what |-> "nothing"]

\* no record set is at hand and nothing has been computed from one
NoData ==
    /\ all_current_orders = <<>>
    /\ all_previous_orders = <<>>
    /\ all_current_credit_notes = <<>>
    /\ all_previous_credit_notes = <<>>
    /\ shown = Nothing

Start ==
    /\ Quiet
    /\ today \in Todays
    /\ dates = NoDates
    /\ NoData

\* the deployment before the first script run of the session
Init ==
    /\ Start
    /\ secrets \in [credentials : BOOLEAN, unleashed : BOOLEAN]
    /\ pc = "init"
    /\ idx = 1

\* a client object before the first direct call of one of its operations
InitClient ==
    /\ Start
    /\ secrets = [credentials |-> TRUE, unleashed |-> TRUE]
    /\ pc = "client"
    /\ idx = 0

(***************************************************************************)
(* main(): from the top of a script run to the first fetch.                *)
(***************************************************************************)
\* what authenticator.login leaves in the session state, or that it raises
Logins == {"raise", "None", "False", "True"}

\* "if authentication_status == False: return", then the same for None
WithheldOnlyFalse(status) == status = "False"

Withheld(status) == status = "False" \/ status = "None"

\* the cache I/O step succeeds, or it fails and that is one more disturbance
Faulty(ok) ==
    /\ ~ok => faults < MaxFaults
    /\ faults' = IF ok THEN faults ELSE faults + 1

\* a user interaction (or st.rerun) runs the script from the top
StartRender(login, choice, click) ==
    /\ pc \in RestPcs
    /\ pc # "rerun" => renders < MaxRenders
    /\ pc = "rerun" => (~click /\ choice = period)
    /\ renders' = IF pc = "rerun" THEN renders ELSE renders + 1
    /\ rets' = <<>>
    /\ log' = <<>>
    /\ idx' = 1
    /\ err' = ""
    /\ after' = IF pc = "rerun" THEN after ELSE "none"
    /\ IF ~secrets.credentials
         THEN pc' = "config_error" /\ UNCHANGED <<auth, period, op>>
       ELSE IF login = "raise"
         THEN pc' = "auth_error" /\ UNCHANGED <<auth, period, op>>
       ELSE /\ auth' = login
            /\ IF Withheld(login)
                 THEN pc' = "login_page" /\ UNCHANGED <<period, op>>
               ELSE IF ~secrets.unleashed
                 THEN pc' = "creds_error" /\ UNCHANGED <<period, op>>
               ELSE /\ period' = choice
                    /\ pc' = IF click THEN "refresh" ELSE "exists"
                    /\ op' = PlanTable[choice, today][1]
    /\ UNCHANGED <<clock, cache, secrets, today, page, all_items, file_age, globbed,
                   epoch, faults, otherOpen, held>>
    /\ UNCHANGED avars

(***************************************************************************)
(* The refresh button: unlink every *.pkl of CACHE_DIR, then st.rerun().   *)
(***************************************************************************)
\* CACHE_DIR.glob("*.pkl"): every cache file is a .pkl of CACHE_DIR
GlobNothing == {}

Glob == DOMAIN cache

\* the button is clicked: the for loop lists the directory
RefreshGlob ==
    /\ pc = "refresh"
    /\ globbed' = Glob
    /\ epoch' = epoch + 1
    /\ after' = IF DOMAIN cache = {} THEN "empty" ELSE "clean"
    /\ pc' = "unlink"
    /\ UNCHANGED <<clock, cache, secrets, today, auth, period, err, renders, idx, op,
                   page, all_items, file_age, rets, log, faults, otherOpen, held>>
    /\ UNCHANGED avars

\* cache_file.unlink() inside try / except: pass
RefreshUnlink(f, ok) ==
    /\ pc = "unlink"
    /\ f \in globbed
    /\ ~ok => f \in DOMAIN cache
    /\ Faulty(ok)
    /\ globbed' = globbed \ {f}
    /\ cache' = IF ok THEN Remove(f) ELSE cache
    /\ after' = IF ok THEN after ELSE "failed"
    /\ UNCHANGED <<clock, secrets, today, auth, period, pc, err, renders, idx, op, page,
                   all_items, file_age, rets, log, epoch, otherOpen, held>>
    /\ UNCHANGED avars

RefreshRerun ==
    /\ pc = "unlink"
    /\ globbed = {}
    /\ pc' = "rerun"
    /\ UNCHANGED <<clock, cache, secrets, today, auth, period, err, renders, idx, op,
                   page, all_items, file_age, rets, globbed, log, epoch, after, faults,
                   otherOpen, held>>
    /\ UNCHANGED avars

(***************************************************************************)
(* A fetch operation (get_sales_orders, get_products, get_salespersons,    *)
(* get_credit_notes): load_from_cache, get_all_pages, save_to_cache.       *)
(***************************************************************************)
\* a direct call of a fetch operation on the client
Call(o) ==
    /\ pc \in ClientRestPcs
    /\ idx = 0
    /\ renders < MaxCalls
    /\ renders' = renders + 1
    /\ op' = o
    /\ pc' = "exists"
    /\ rets' = <<>>
    /\ log' = <<>>
    /\ err' = ""
    /\ UNCHANGED <<clock, cache, secrets, today, auth, period, idx, page, all_items,
                   file_age, globbed, epoch, after, faults, otherOpen, held>>
    /\ UNCHANGED avars

\* the operation returns r; main() goes on to its next fetch
Return(r) ==
    /\ rets' = Append(rets, r)
    /\ IF idx = 0
         THEN pc' = "returned" /\ UNCHANGED <<idx, op>>
       ELSE IF idx = Len(Plan)
         THEN pc' = "dashboard" /\ UNCHANGED <<idx, op>>
       ELSE pc' = "exists" /\ idx' = idx + 1 /\ op' = Plan[idx + 1]
    /\ page' = 1
    /\ all_items' = <<>>
    /\ file_age' = 0
    /\ log' = <<>>

\* an exception leaves the operation; main() catches it and shows one error
RaiseAndShow(e) ==
    /\ pc' = "dashboard"
    /\ err' = e
    /\ page' = 1
    /\ all_items' = <<>>
    /\ file_age' = 0

Raise(e) ==
    /\ pc' = "error"
    /\ err' = e
    /\ page' = 1
    /\ all_items' = <<>>
    /\ file_age' = 0

\* load_from_cache returned None: on to get_all_pages
Miss ==
    /\ pc' = "request"
    /\ page' = 1
    /\ all_items' = <<>>
    /\ log' = <<>>

\* "if cache_file.exists():".  A write another session has under way on another
\* file commutes with every step up to here, so it is taken to end before.
LoadExists ==
    /\ pc = "exists"
    /\ otherOpen.f \in {NoFile.f, File}
    /\ IF File \in DOMAIN cache
         THEN pc' = "stat" /\ UNCHANGED <<page, all_items, log>>
         ELSE Miss
    /\ UNCHANGED <<clock, cache, secrets, today, auth, period, err, renders, idx, op,
                   file_age, rets, globbed, epoch, after, faults, otherOpen, held>>
    /\ UNCHANGED avars

\* cache_file.stat().st_mtime and the age test, outside any try
LoadStat ==
    /\ pc = "stat"
    /\ IF File \notin DOMAIN cache
         THEN Raise("FileNotFoundError") /\ UNCHANGED log
       ELSE /\ file_age' = clock - cache[File].mtime
            /\ IF IsFresh(file_age')
                 THEN pc' = "read" /\ UNCHANGED <<page, all_items, log>>
                 ELSE Miss
            /\ UNCHANGED err
    /\ UNCHANGED <<clock, cache, secrets, today, auth, period, renders, idx, op, rets,
                   globbed, epoch, after, faults, otherOpen, held>>
    /\ UNCHANGED avars

\* "with open(cache_file, 'rb') as f:" and the first reads of pickle.load.  The
\* file is not locked: pickle.load has read all of it (done), or the first n
\* records, when other processes get to run.
LoadOpen(done, n) ==
    /\ pc = "read"
    /\ IF File \notin DOMAIN cache
         THEN Miss /\ UNCHANGED held
         ELSE /\ n \in 0..Len(cache[File].data)
              /\ done => cache[File].st = "ok" /\ n = Len(cache[File].data)
              /\ ~done => n < Len(cache[File].data) \/ n = 0
              /\ held' = [at |-> cache[File],
                          seen |-> SubSeq(cache[File].data, 1, n),
                          done |-> done, gone |-> FALSE, cur |-> NoEntry]
              /\ pc' = "load"
              /\ UNCHANGED <<page, all_items, log>>
    /\ UNCHANGED <<clock, cache, secrets, today, auth, period, err, renders, idx, op,
                   file_age, rets, globbed, epoch, after, faults, otherOpen>>
    /\ UNCHANGED avars

\* the file load_from_cache has open, as it is now: an unlinked file stays as it
\* was until its last writer closes it
Inode == IF held.gone THEN held.cur ELSE cache[File]

\* the rest of pickle.load inside try / except: pass, then "is not None" in the
\* caller.  What was read of a file that has been rewritten since may not parse.
LoadRead(ok) ==
    LET \* the file was written or unlinked since it was opened, before all of it was read
        Rewritten == ~held.done /\ Inode # held.at
    IN
        LET \* what pickle.load makes of the records read so far and the rest of the file
            Loaded ==
                IF held.done
                  THEN PyList(held.at.data)
                ELSE IF Inode.st = "ok" /\ Len(Inode.data) >= Len(held.seen)
                  THEN PyList(held.seen \o SubSeq(Inode.data, Len(held.seen) + 1, Len(Inode.data)))
                ELSE PyNone
        IN
            /\ pc = "load"
            /\ IF Rewritten THEN UNCHANGED faults ELSE Faulty(ok)
            /\ LET cached_data == IF ok THEN Loaded ELSE PyNone
                   from == IF held.done THEN held.at ELSE Inode
               IN  IF IsHit(cached_data)
                     THEN Return([data |-> cached_data.v, src |-> "cache", age |-> file_age,
                                  q |-> from.q, by |-> from.by, ep |-> from.ep])
                     ELSE Miss /\ UNCHANGED <<idx, op, file_age, rets>>
            /\ held' = NotHeld
            /\ UNCHANGED <<clock, cache, secrets, today, auth, period, err, renders, globbed,
                           epoch, after, otherOpen>>
            /\ UNCHANGED avars

\* one turn of the loop of get_all_pages: _make_request, then the two breaks
Request(resp) ==
    /\ pc = "request"
    /\ Len(log) <= MaxPages
    /\ log' = Append(log, [page |-> page, resp |-> resp,
                           req |-> _make_request(Endpoint(op),
                                                 CurrentParams(ParamsOf(op), page))])
    /\ IF RaisesForStatus(resp.status)
         THEN Raise("HTTPError")
       ELSE LET items == ItemsOf(resp.body)
                pagination == PaginationOf(resp.body)
            IN  IF NotItems(items)
                  THEN pc' = "save_open" /\ UNCHANGED <<err, page, all_items, file_age>>
                ELSE IF PaginationRaises(pagination)
                  THEN Raise("AttributeError")
                ELSE /\ all_items' = Extend(all_items, items)
                     /\ IF IsLastPage(page, pagination)
                          THEN pc' = "save_open" /\ UNCHANGED page
                          ELSE pc' = "request" /\ page' = NextPage(page)
                     /\ UNCHANGED <<err, file_age>>
    /\ UNCHANGED <<clock, cache, secrets, today, auth, period, renders, idx, op, rets,
                   globbed, epoch, after, faults, otherOpen, held>>
    /\ UNCHANGED avars

\* what a fetch returns after get_all_pages, with its history
Live(data) ==
    [data |-> data, src |-> "live", age |-> 0, q |-> op, by |-> "main", ep |-> epoch]

\* save_to_cache: open(cache_file, 'wb') inside try / except: pass
SaveOpen(ok) ==
    /\ pc = "save_open"
    /\ Faulty(ok)
    /\ IF ok
         THEN /\ cache' = Truncated(File, op, "main")
              /\ pc' = "save_dump"
              /\ log' = <<>>
              /\ UNCHANGED <<idx, op, page, all_items, file_age, rets>>
         ELSE /\ Return(Live(all_items))
              /\ UNCHANGED cache
    /\ UNCHANGED <<clock, secrets, today, auth, period, err, renders, globbed, epoch,
                   after, otherOpen, held>>
    /\ UNCHANGED avars

\* save_to_cache: pickle.dump and close, then "return data"
SaveDump(ok) ==
    /\ pc = "save_dump"
    /\ Faulty(ok)
    /\ cache' = Dumped(File, op, all_items, "main", ok)
    /\ Return(Live(all_items))
    /\ UNCHANGED <<clock, secrets, today, auth, period, err, renders, globbed, epoch,
                   after, otherOpen, held>>
    /\ UNCHANGED avars

(***************************************************************************)
(* The environment: the clock, and other sessions on the cache directory.  *)
(***************************************************************************)
\* an hour passes; a script run takes less, so none passes during one
ClockTick ==
    /\ clock < MaxClock
    /\ pc \in RestPcs \cup ClientRestPcs
    /\ clock' = clock + 1
    /\ UNCHANGED <<cache, secrets, today, auth, period, pc, err, renders, idx, op, page,
                   all_items, file_age, rets, globbed, log, epoch, after, faults, otherOpen, held>>
    /\ UNCHANGED avars

\* another session's save_to_cache opens the file for the result of its fetch
OtherSaveOpen(o, data) ==
    /\ faults < MaxFaults
    /\ otherOpen = NoFile
    /\ faults' = faults + 1
    /\ otherOpen' = [f |-> get_cache_file(CacheKey(o)), op |-> o, data |-> data]
    /\ cache' = Truncated(get_cache_file(CacheKey(o)), o, "other")
    /\ UNCHANGED <<clock, secrets, today, auth, period, pc, err, renders, idx, op, page,
                   all_items, file_age, rets, globbed, log, epoch, after, held>>
    /\ UNCHANGED avars

\* ... and dumps and closes it
OtherSaveDump ==
    /\ otherOpen # NoFile
    /\ cache' = Dumped(otherOpen.f, otherOpen.op, otherOpen.data, "other", TRUE)
    /\ otherOpen' = NoFile
    /\ held' = IF pc = "load" /\ held.gone /\ otherOpen.f = File /\ "other" \in held.cur.w
                 THEN [held EXCEPT !.cur = Entry("ok", otherOpen.data, otherOpen.op,
                                                 held.cur.w \ {"other"}, "other")]
                 ELSE held
    /\ UNCHANGED <<clock, secrets, today, auth, period, pc, err, renders, idx, op, page,
                   all_items, file_age, rets, globbed, log, epoch, after, faults>>
    /\ UNCHANGED avars

\* another session's refresh unlinks a file
OtherUnlink(f) ==
    /\ faults < MaxFaults
    /\ f \in DOMAIN cache
    /\ faults' = faults + 1
    /\ cache' = Remove(f)
    /\ held' = IF pc = "load" /\ ~held.gone /\ f = File
                 THEN [held EXCEPT !.gone = TRUE, !.cur = cache[f]]
                 ELSE held
    /\ UNCHANGED <<clock, secrets, today, auth, period, pc, err, renders, idx, op, page,
                   all_items, file_age, rets, globbed, log, epoch, after,
                   otherOpen>>
    /\ UNCHANGED avars

\* the operations of the client, on the dates of a monthly render
ClientOps ==
    {PlanTable["Monthly", today][i] : i \in {1, 3, 4}} \cup {GetSalespersons}

\* what another session's fetch returned
OtherData == {<<Record(1, 2), Record(2, 2)>>}

FetchPcs == {"exists", "stat", "read", "load", "request", "save_open", "save_dump"}

\* The fetches of other sessions whose cache files the main session can observe.
\* A step on any other file commutes with the steps of the main session, so it is
\* taken when the main session gets to that file.
OtherOps ==
    IF pc \in FetchPcs THEN {op}
    ELSE IF pc \in {"refresh", "unlink"} THEN {Plan[i] : i \in 1..Len(Plan)}
    ELSE {}

Environment ==
    \/ ClockTick
    \/ \E o \in OtherOps, data \in OtherData : OtherSaveOpen(o, data)
    \/ OtherSaveDump
    \/ \E o \in OtherOps : OtherUnlink(get_cache_file(CacheKey(o)))

FetchStep(responses) ==
    \/ LoadExists
    \/ LoadStat
    \/ \E done \in BOOLEAN, n \in 0..MaxPages * MaxItems : LoadOpen(done, n)
    \/ \E ok \in BOOLEAN : LoadRead(ok)
    \/ \E resp \in responses[page] : Request(resp)
    \/ \E ok \in BOOLEAN : SaveOpen(ok)
    \/ \E ok \in BOOLEAN : SaveDump(ok)

\* the dashboard: script runs of one session against a one-page server
Next ==
    \/ \E login \in Logins, choice \in PeriodChoices, click \in BOOLEAN :
          StartRender(login, choice, click)
    \/ RefreshGlob
    \/ \E f \in globbed, ok \in BOOLEAN : RefreshUnlink(f, ok)
    \/ RefreshRerun
    \/ FetchStep([p \in 1..MaxPages + 2 |-> OnePageResponses(p)])
    \/ Environment

Spec == Init /\ [][Next]_vars

\* the client alone: direct calls of its operations against any server
NextClient ==
    \/ \E o \in ClientOps : Call(o)
    \/ FetchStep([p \in 1..MaxPages + 2 |-> Responses(p)])
    \/ Environment

SpecClient == InitClient /\ [][NextClient]_vars

(***************************************************************************)
(* The period calculator on its own: main() from "today = datetime.now()"  *)
(* to the four date strings, for any reference date.                       *)
(***************************************************************************)
CalendarDays ==
    {t \in [y : FirstYear..LastYear, m : 1..12, d : 1..31] : IsValidDate(t)}

InitPeriods ==
    /\ Quiet
    /\ today \in CalendarDays
    /\ dates = NoDates
    /\ NoData
    /\ secrets = [credentials |-> TRUE, unleashed |-> TRUE]
    /\ pc = "today"
    /\ idx = 1

\* "if period == 'Monthly': ... else: ..." with the choice of the period radio
CalculatePeriods(choice) ==
    /\ pc = "today"
    /\ period' = choice
    /\ dates' = Periods(choice, today)
    /\ pc' = "periods"
    /\ UNCHANGED <<clock, cache, secrets, today, auth, err, renders, idx, op, page,
                   all_items, file_age, rets, globbed, log, epoch, after, faults,
                   otherOpen, held, all_current_orders, all_previous_orders,
                   all_current_credit_notes, all_previous_credit_notes, shown>>

NextPeriods == \E choice \in PeriodChoices : CalculatePeriods(choice)

SpecPeriods == InitPeriods /\ [][NextPeriods]_vars

(***************************************************************************)
(* The aggregation functions and the dashboard on their own: main() after  *)
(* the data load, and direct calls of the functions, for any record sets.  *)
(***************************************************************************)
SubTotals == {50, 100}

Seqs(S, n) == UNION {[1..k -> S] : k \in 0..n}

\* complete orders of a customer and of the two excluded ones
ExcludableOrders ==
    {Order({"Customer", "SalesPerson", "SubTotal", "SalesOrderLines"}, c,
           SalesPerson("g1", "Sam"), 50, <<Line(Product("P1", "Pump"), 50)>>) :
        c \in {Customer("A", "Acme"), Customer("Virtugroup", "Virtugroup Ltd"),
               Customer("Fengrong", "Fengrong Co")}}

\* orders and credit notes whose SubTotal is negative, zero or missing
OddOrders ==
    {Order({"Customer", "SubTotal"}, Customer("A", "Acme"), NoSalesPerson, t, <<>>) :
        t \in {-50, 0, 50}}
      \cup {Order({"Customer"}, Customer("A", "Acme"), NoSalesPerson, 0, <<>>)}

\* the product lists get_products may have returned: P1 with or without a price
Catalogs ==
    {<<>>,
     <<PricedProduct({"ProductCode", "DefaultPurchasePrice"}, "P1", "", 6, 0)>>,
     <<PricedProduct({"ProductCode"}, "P1", "", 0, 0)>>}

OrderFamilies ==
    LET MarginOrders ==
            LET \* Order lines of 2 units for 50 that differ in where a unit cost is found: on the
                \* line, in the product's default purchase price, in its average land price, in
                \* the catalog, or nowhere; a cost of 0 is as good as none.
                MarginLines ==
                    {CostedLine({"Product", "LineTotal", "OrderQuantity", "UnitCost"},
                                PricedProduct({"ProductCode", "ProductDescription", "DefaultPurchasePrice",
                                               "AverageLandPrice"}, "P1", "Pump", 4, 5), 50, 2, unit_cost) :
                        unit_cost \in {0, 30}}
                      \cup {CostedLine({"Product", "LineTotal", "OrderQuantity"},
                                       PricedProduct({"ProductCode", "ProductDescription",
                                                      "DefaultPurchasePrice", "AverageLandPrice"},
                                                     "P1", "Pump", 0, land_price), 50, 2, 0) :
                               land_price \in {0, 5}}
                      \cup {CostedLine({"Product", "LineTotal", "OrderQuantity"},
                                       PricedProduct({"ProductCode", "ProductDescription"}, code, "Part", 0, 0),
                                       50, 2, 0) : code \in {"P1", "P2"}}
            IN
                {Order({"Customer", "SubTotal", "SalesOrderLines"}, Customer("A", "Acme"),
                       NoSalesPerson, 50, <<line>>) : line \in MarginLines}
    IN
        LET \* orders of one line each: of two products, or of a line without a product
            ProductOrders ==
                {Order({"Customer", "SalesPerson", "SubTotal", "SalesOrderLines"}, Customer("A", "Acme"),
                       SalesPerson("g1", "Sam"), t, <<Line(product, t)>>) :
                    product \in {Product("P1", "Pump"), Product("P2", "Pipe"), NoProduct},
                    t \in SubTotals}
        IN
            LET \* orders that differ in their salesperson: none (a missing and an empty object
                \* are skipped alike), and three people, two of them with the same full name
                SalespersonOrders ==
                    {Order({"Customer", "SubTotal"}, Customer("A", "Acme"), NoSalesPerson, t, <<>>) :
                        t \in SubTotals}
                      \cup {Order({"Customer", "SalesPerson", "SubTotal"}, Customer("A", "Acme"), p, t, <<>>) :
                              p \in {SalesPerson("g1", "Sam"), SalesPerson("g2", "Sam"),
                                     SalesPerson("g3", "Kim")},
                              t \in SubTotals}
            IN
                LET \* orders that differ in their customer: none, one without a code, two with one
                    CustomerOrders ==
                        {Order({"SubTotal"}, NoCustomer, NoSalesPerson, t, <<>>) : t \in SubTotals}
                          \cup {Order({"Customer", "SubTotal"}, c, NoSalesPerson, t, <<>>) :
                                  c \in {Nameless("Nameless"), Customer("A", "Acme"), Customer("B", "Bolt")},
                                  t \in SubTotals}
                IN
                    {CustomerOrders, SalespersonOrders, ExcludableOrders, ProductOrders,
                     OddOrders, MarginOrders}

\* the credit notes that come with the orders of a family
NotesWith(family) ==
    LET OddNotes ==
            {Order({"Customer", "SubTotal"}, Customer("A", "Acme"), NoSalesPerson, -50, <<>>),
             Order({"Customer"}, Customer("A", "Acme"), NoSalesPerson, 0, <<>>)}
    IN
        LET ExcludableNotes ==
                {Order({"Customer", "SubTotal"}, c, NoSalesPerson, 50, <<>>) :
                    c \in {Customer("A", "Acme"), Customer("Virtugroup", "Virtugroup Ltd")}}
        IN
            IF family = ExcludableOrders THEN ExcludableNotes
            ELSE IF family = OddOrders THEN OddNotes
            ELSE {}

\* the values of limit the functions are called with
Limits == {1, limit}

InitAnalytics ==
    /\ Quiet
    /\ today \in Todays
    /\ dates = NoDates
    /\ secrets = [credentials |-> TRUE, unleashed |-> TRUE]
    /\ pc = "loaded"
    /\ idx = 1
    /\ shown = Nothing
    /\ \E family \in OrderFamilies :
          /\ all_current_orders \in Seqs(family, MaxOrders)
          /\ all_previous_orders \in Seqs(family, MaxOrders)
          /\ all_current_credit_notes \in Seqs(NotesWith(family), MaxNotes)
          /\ all_previous_credit_notes \in Seqs(NotesWith(family), MaxNotes)

\* what stays as it is when something is computed from the record sets
Computed ==
    UNCHANGED <<clock, cache, secrets, today, auth, period, err, renders, idx, op, page,
                all_items, file_age, rets, globbed, log, epoch, after, faults,
                otherOpen, held, dates, all_current_orders, all_previous_orders,
                all_current_credit_notes, all_previous_credit_notes>>

\* main() from the exclusion filter to the last table
Render(customers, products) ==
    /\ pc = "loaded"
    /\ shown' = Dashboard(all_current_orders, all_previous_orders,
                          all_current_credit_notes, all_previous_credit_notes,
                          customers, products)
    /\ pc' = "dashboard"
    /\ Computed

\* get_top_customers_comparison(current_orders, previous_orders, limit)
CallTopCustomers(customers, n) ==
    /\ pc = "loaded"
    /\ LET comparison == Comparison(all_current_orders, all_previous_orders, customers)
           top == get_top_customers_comparison(comparison, n)
       IN  shown' = [what |-> "get_top_customers_comparison", n |-> n,
                     comparison |-> comparison, raised |-> top.raised, df |-> top.df]
    /\ pc' = "returned"
    /\ Computed

\* compare_customer_growth(current_orders, previous_orders, limit)
CallCompareCustomerGrowth(customers, n) ==
    /\ pc = "loaded"
    /\ LET comparison == Comparison(all_current_orders, all_previous_orders, customers)
           both == compare_customer_growth(comparison, n)
       IN  shown' = [what |-> "compare_customer_growth", n |-> n,
                     comparison |-> comparison, raised |-> both.raised,
                     growth |-> both.growth, decline |-> both.decline]
    /\ pc' = "returned"
    /\ Computed

\* get_top_products_comparison(current_orders, previous_orders, limit)
CallTopProducts(products, n) ==
    /\ pc = "loaded"
    /\ LET comparison == ProductComparison(all_current_orders, all_previous_orders, products)
           top == get_top_products_comparison(all_current_orders, all_previous_orders,
                                              products, n)
       IN  shown' = [what |-> "get_top_products_comparison", n |-> n,
                     comparison |-> comparison, raised |-> top.raised, df |-> top.df]
    /\ pc' = "returned"
    /\ Computed

\* calculate_total_sales(orders)
CallTotalSales(orders) ==
    /\ pc = "loaded"
    /\ shown' = [what |-> "calculate_total_sales", records |-> orders,
                 total |-> calculate_total_sales(orders)]
    /\ pc' = "returned"
    /\ Computed

\* calculate_total_credit_notes(credit_notes)
CallTotalCreditNotes(credit_notes) ==
    /\ pc = "loaded"
    /\ shown' = [what |-> "calculate_total_credit_notes", records |-> credit_notes,
                 total |-> calculate_total_credit_notes(credit_notes)]
    /\ pc' = "returned"
    /\ Computed

\* get_top_products_by_margin_comparison(current_orders, previous_orders,
\* products_list, limit), on orders whose lines tell a quantity
CallTopProductsByMargin(products_list, products, n) ==
    /\ pc = "loaded"
    /\ LET lines == AllLines(all_current_orders \o all_previous_orders)
       IN  \E i \in DOMAIN lines : "OrderQuantity" \in lines[i].keys
    /\ LET comparison == MarginComparison(all_current_orders, all_previous_orders,
                                          products_list, products)
           top == get_top_products_by_margin_comparison(comparison, n)
       IN  shown' = [what |-> "get_top_products_by_margin_comparison", n |-> n,
                     products_list |-> products_list, comparison |-> comparison,
                     raised |-> top.raised, df |-> top.df]
    /\ pc' = "returned"
    /\ Computed

\* get_salesperson_revenue(orders)
CallSalespersonRevenue(orders) ==
    /\ pc = "loaded"
    /\ shown' = [what |-> "get_salesperson_revenue", orders |-> orders,
                 df |-> get_salesperson_revenue(orders)]
    /\ pc' = "returned"
    /\ Computed

\* the customer codes, and the product codes, the dashboard makes rows for
ShownCustomers ==
    AllCustomers(ExcludeFilter(all_current_orders), ExcludeFilter(all_previous_orders))

ShownProducts ==
    AllProducts(ExcludeFilter(all_current_orders), ExcludeFilter(all_previous_orders))

NextAnalytics ==
    \/ \E customers \in Iterations(ShownCustomers), products \in Iterations(ShownProducts) :
          Render(customers, products)
    \/ \E customers \in Iterations(AllCustomers(all_current_orders, all_previous_orders)),
          n \in Limits : CallTopCustomers(customers, n)
    \/ \E customers \in Iterations(AllCustomers(all_current_orders, all_previous_orders)),
          n \in Limits : CallCompareCustomerGrowth(customers, n)
    \/ \E products \in Iterations(AllProducts(all_current_orders, all_previous_orders)),
          n \in Limits : CallTopProducts(products, n)
    \/ \E products_list \in Catalogs,
          products \in Iterations(AllProducts(all_current_orders, all_previous_orders)),
          n \in Limits : CallTopProductsByMargin(products_list, products, n)
    \/ \E orders \in {all_current_orders, all_previous_orders} : CallSalespersonRevenue(orders)
    \/ \E orders \in {all_current_orders, all_previous_orders} : CallTotalSales(orders)
    \/ \E credit_notes \in {all_current_credit_notes, all_previous_credit_notes} :
          CallTotalCreditNotes(credit_notes)

SpecAnalytics == InitAnalytics /\ [][NextAnalytics]_vars

(***************************************************************************)
(* Properties.  What a response says, read off the response itself.        *)
(***************************************************************************)
RespItems(resp) == IF "Items" \in resp.body.keys THEN resp.body.Items ELSE <<>>

\* the Pagination slot holds an object that reports NumberOfPages
RespHasPages(resp) ==
    /\ "Pagination" \in resp.body.keys
    /\ ~resp.body.Pagination.null
    /\ "NumberOfPages" \in resp.body.Pagination.keys

RespPages(resp) == IF RespHasPages(resp) THEN resp.body.Pagination.NumberOfPages ELSE 1

RespOk(resp) == resp.status >= 200 /\ resp.status < 300

RECURSIVE ConcatItems(_, _)
\* the Items lists of the first n logged responses, one after the other
ConcatItems(l, n) ==
    IF n = 0 THEN <<>> ELSE ConcatItems(l, n - 1) \o RespItems(l[n].resp)

\* get_all_pages has returned and its result is in all_items
PagesReturned == pc = "save_open"

\* C1: get_all_pages requests pages 1, 2, 3, ... in that order, each once, and
\* what it returns is the Items lists of the requested pages, concatenated in
\* page order.
C1_PagesInOrder ==
    /\ \A i \in 1..Len(log) : log[i].page = i
    /\ pc = "request" => page = Len(log) + 1
    /\ PagesReturned => all_items = ConcatItems(log, Len(log))

\* two pages were requested and both gave a record
C1_Witness ==
    /\ PagesReturned
    /\ Len(log) = 2
    /\ all_items = <<Record(1, 1), Record(2, 1)>>

\* a response after which get_all_pages is to stop: its Items list is empty, or
\* its NumberOfPages is at most the page just requested
RespStops(l) == RespItems(l.resp) = <<>> \/ RespPages(l.resp) <= l.page

\* C2: get_all_pages issues no request after a response with an empty Items list
\* (whatever its NumberOfPages) or after a response whose NumberOfPages is at most
\* the page just requested, and it returns only after such a response.
C2_StopsAtLastPage ==
    /\ \A i \in 1..Len(log) - 1 : ~RespStops(log[i])
    /\ pc = "request" => \A i \in 1..Len(log) : ~RespStops(log[i])
    /\ PagesReturned => Len(log) >= 1 /\ RespStops(log[Len(log)])

\* the first page came back empty although the server reported more pages
C2_Witness ==
    /\ PagesReturned
    /\ Len(log) = 1
    /\ RespItems(log[1].resp) = <<>>
    /\ RespHasPages(log[1].resp)
    /\ RespPages(log[1].resp) > 1

\* a page request of the running fetch got a non-success status
HttpFailed == \E i \in 1..Len(log) : ~RespOk(log[i].resp)

\* the running fetch of the main session wrote to the cache directory
WroteCache == \E f \in DOMAIN cache : cache[f].by = "main" /\ cache[f].n = renders

\* C3: once a page request of a fetch operation gets a non-success status, the
\* operation has raised: it returns nothing, not even the pages fetched before,
\* and it neither creates nor overwrites a cache entry.
C3_HttpErrorAborts ==
    HttpFailed =>
        /\ pc = "error"
        /\ err = "HTTPError"
        /\ rets = <<>>
        /\ ~WroteCache

\* page 1 gave a record, page 2 failed, and an older entry of the query is still there
C3_Witness ==
    /\ HttpFailed
    /\ Len(log) = 2
    /\ File \in DOMAIN cache
    /\ cache[File].st = "ok"
    /\ cache[File].n < renders

\* the Pagination of a response is missing or malformed
RespNoPages(resp) == RespOk(resp) /\ ~RespHasPages(resp)

\* C4: a response whose Pagination is absent, null or without NumberOfPages is the
\* last page: get_all_pages sends no further request and does not raise.
C4_MissingPaginationIsOnePage ==
    \A i \in 1..Len(log) :
        RespNoPages(log[i].resp) => i = Len(log) /\ pc # "request" /\ pc # "error"

\* the step is one of the running fetch operation, not of the environment
FetchMoves == pc' # pc

\* the hours since the cache file of the running fetch was written
EntryAge == clock - cache[File].mtime

\* the cache file of the running fetch holds a complete pickle
EntryReadable == File \in DOMAIN cache /\ cache[File].st = "ok"

EntryFresh == EntryReadable /\ EntryAge * 3600 < 2 * 3600

\* the step returns data from the running fetch operation, taken from src
Returns(src, data) ==
    /\ Len(rets') = Len(rets) + 1
    /\ SubSeq(rets', 1, Len(rets)) = rets
    /\ rets'[Len(rets')].src = src
    /\ rets'[Len(rets')].data = data

\* the file load_from_cache opened is still there, as it was
EntryKept == ~held.gone /\ File \in DOMAIN cache /\ cache[File] = held.at

\* a fresh, readable entry takes load_from_cache through its four steps and the
\* operation returns what is stored, with no request sent
C5_Step ==
    /\ (pc = "exists" /\ EntryFresh /\ FetchMoves) => pc' = "stat"
    /\ (pc = "stat" /\ EntryFresh /\ FetchMoves) => pc' = "read"
    /\ (pc = "read" /\ EntryFresh /\ FetchMoves) => pc' = "load"
    /\ (pc = "load" /\ EntryKept /\ EntryFresh /\ FetchMoves /\ faults' = faults) =>
          /\ Returns("cache", cache[File].data)
          /\ log' = <<>>
          /\ pc' \notin {"request", "error"}

\* C5: when the cache file of the query is readable and was written less than 2
\* hours ago, the fetch operation returns the stored records, an empty list
\* included, and sends no HTTP request.
C5_FreshEntryIsReturned == [][C5_Step]_vars

\* the second call found the empty list the first one stored an hour before
C5_Witness ==
    /\ pc = "returned"
    /\ renders = 2
    /\ rets[1].src = "cache"
    /\ rets[1].data = <<>>
    /\ rets[1].age = 1
    /\ rets[1].by = "main"

\* a stale or unreadable entry sends the operation to get_all_pages; what it then
\* returns is the live result, which a successful write leaves in the file; and
\* what is returned from the cache is younger than 2 hours
C6_Step ==
    /\ (pc = "stat" /\ File \in DOMAIN cache /\ EntryAge * 3600 >= 2 * 3600 /\ FetchMoves) =>
          pc' = "request" /\ err' = "" /\ log' = <<>>
    /\ (pc = "load" /\ FetchMoves
          /\ ((EntryKept /\ cache[File].st # "ok") \/ faults' # faults)) =>
          pc' = "request" /\ err' = "" /\ log' = <<>>
    /\ (pc \in {"save_open", "save_dump"} /\ rets' # rets) =>
          Returns("live", all_items)
    /\ (pc = "save_open" /\ FetchMoves /\ faults' = faults) =>
          pc' = "save_dump" /\ File \in DOMAIN cache'
    /\ (pc = "save_dump" /\ FetchMoves /\ faults' = faults /\ File \in DOMAIN cache
          /\ "main" \in cache[File].w) =>
          /\ cache'[File].st = "ok"
          /\ cache'[File].data = all_items
          /\ cache'[File].mtime = clock
    /\ (pc = "load" /\ rets' # rets) => (clock - held.at.mtime) * 3600 < 2 * 3600

\* C6: an entry aged 2 hours or more, or one that cannot be read, is a miss and
\* not an error: the operation fetches live, returns the live result and writes
\* it over the entry; nothing is returned from an entry aged 2 hours or more.
C6_StaleEntryIsMiss == [][C6_Step]_vars

\* the live result is about to be written over an entry that is 2 hours old
C6_Witness ==
    /\ pc = "save_open"
    /\ EntryReadable
    /\ EntryAge = 2
    /\ all_items # <<>>
    /\ all_items # cache[File].data

\* C7: no failure of cache I/O ends a fetch operation or the refresh in an
\* exception: a file that is gone when its age is taken is a miss like any other.
C7_CacheFailuresAreSwallowed == ~(pc = "error" /\ err = "FileNotFoundError")

\* the script run that st.rerun() starts after a refresh, up to its end
AfterRefresh == after # "none" /\ pc # "unlink"

\* the fetch operations that have returned in this run all fetched live
AllLive == \A i \in 1..Len(rets) : rets[i].src = "live"

PlanDates ==
    UNION {{PlanTable[c, t][i].start, PlanTable[c, t][i].end} \ {""} :
             c \in PeriodChoices, t \in Todays, i \in {1, 2}}

Queries ==
    {GetSalesOrders(s, e) : s \in PlanDates, e \in PlanDates}
      \cup {GetCreditNotes(s, e) : s \in PlanDates, e \in PlanDates}
      \cup {GetProducts, GetSalespersons}

\* two queries have the same cache key exactly when they are the same query
KeysSeparate ==
    \A q1 \in Queries, q2 \in Queries : CacheKey(q1) = CacheKey(q2) <=> q1 = q2

\* C9: queries have the same cache key exactly when they are the same endpoint
\* and date range, and what a fetch operation returns from the cache was stored
\* by a fetch of the same endpoint and date range.  (The keys do not depend on
\* the state, so they are compared once, before the first run.)
C9_KeysSeparateQueries ==
    /\ renders = 0 => KeysSeparate
    /\ \A i \in 1..Len(rets) : rets[i].src = "cache" => rets[i].q = Plan[i]

\* a quarterly run next to the files of a monthly one: products came from the
\* cache, the sales orders of the quarter were fetched
C9_Witness ==
    /\ pc = "dashboard"
    /\ period = "Quarterly"
    /\ rets[1].src = "live"
    /\ rets[3].src = "cache"
    /\ get_cache_file(CacheKey(PlanTable["Monthly", today][1])) \in DOMAIN cache
    /\ get_cache_file(CacheKey(PlanTable["Quarterly", today][1])) \in DOMAIN cache

\* the places of a script run where it fetches, refreshes or shows the dashboard
BehindTheGate == FetchPcs \cup {"refresh", "unlink", "rerun", "dashboard"}

\* C10: a script run whose authentication status is not True, or whose secrets
\* lack the API credentials, sends no request, reads no cache file and shows no
\* dashboard.
C10_NothingBehindTheGate ==
    (auth # "True" \/ ~secrets.unleashed \/ ~secrets.credentials) =>
        /\ pc \notin BehindTheGate
        /\ rets = <<>>
        /\ log = <<>>

\* a failed login on the second run, with the files of the first still there
C10_Witness ==
    /\ pc = "login_page"
    /\ auth = "False"
    /\ renders = 2
    /\ DOMAIN cache # {}

\* the last day of month m of year y, for the years of the calendar
LastDayOf(y, m) ==
    IF m = 2 THEN (IF y % 4 = 0 THEN 29 ELSE 28)
    ELSE <<31, 0, 31, 30, 31, 30, 31, 31, 30, 31, 30, 31>>[m]

\* the month before month m of year y
MonthBefore(y, m) == IF m = 1 THEN [y |-> y - 1, m |-> 12] ELSE [y |-> y, m |-> m - 1]

\* C13: in monthly mode the current period runs from the first of the reference
\* month to the reference date; the previous period starts on the first of the
\* month before (December of the year before for January) and ends on the
\* reference day of that month, or on its last day when it has no such day; the
\* calculation always ends with the four dates.
C13_MonthlyPeriods ==
    /\ (pc = "today" /\ today \in CalendarDays) => ENABLED CalculatePeriods("Monthly")
    /\ (pc = "periods" /\ period = "Monthly") =>
          LET b == MonthBefore(today.y, today.m)
              last == LastDayOf(b.y, b.m)
          IN  /\ dates.current_start = Strftime(Date(today.y, today.m, 1))
              /\ dates.current_end = Strftime(today)
              /\ dates.previous_start = Strftime(Date(b.y, b.m, 1))
              /\ dates.previous_end =
                    Strftime(Date(b.y, b.m, IF today.d <= last THEN today.d ELSE last))

\* March 31 of a leap year gives February 29
C13_Witness ==
    /\ pc = "periods"
    /\ period = "Monthly"
    /\ today = Date(2024, 3, 31)
    /\ dates.previous_start = "2024-02-01"
    /\ dates.previous_end = "2024-02-29"

\* the first month of the quarter of month m
QuarterMonth(m) == m - ((m - 1) % 3)

\* the first day of the quarter before the quarter of t
QuarterBefore(t) ==
    IF QuarterMonth(t.m) = 1 THEN Date(t.y - 1, 10, 1)
    ELSE Date(t.y, QuarterMonth(t.m) - 3, 1)

\* C14: in quarterly mode the current period starts on the first day of the
\* reference quarter, the previous period starts on the first day of the quarter
\* before (October 1 of the year before for Q1), and the previous period ends as
\* many days after its start as the reference date is after the current start.
C14_QuarterlyPeriods ==
    (pc = "periods" /\ period = "Quarterly") =>
        LET start == Date(today.y, QuarterMonth(today.m), 1)
            before == QuarterBefore(today)
        IN  /\ dates.current_start = Strftime(start)
            /\ dates.previous_start = Strftime(before)
            /\ \E t \in {u \in [y : {before.y}, m : before.m..before.m + 3, d : 1..31] :
                           u.m <= 12 /\ u.d <= LastDayOf(u.y, u.m)} :
                  /\ dates.previous_end = Strftime(t)
                  /\ Ordinal(t) - Ordinal(before) = Ordinal(today) - Ordinal(start)

\* January 15 looks back to the fourth quarter of the year before
C14_Witness ==
    /\ pc = "periods"
    /\ period = "Quarterly"
    /\ today = Date(2025, 1, 15)
    /\ dates.previous_start = "2024-10-01"
    /\ dates.previous_end = "2024-10-15"

\* a fetch of this run has failed
FetchFailed == err # "" \/ HttpFailed

\* after a failed fetch the run is over: it shows the error and nothing else
C11_State ==
    FetchFailed =>
        /\ pc = "error"
        /\ err # ""
        /\ Len(rets) < Len(Plan)
        /\ shown.what = "nothing"

\* and nothing more is fetched or shown until the user starts the next run
C11_Step ==
    pc = "error" =>
        \/ renders' = renders + 1
        \/ pc' = "error" /\ rets' = rets /\ log' = log /\ shown' = shown

\* C11: when one of the five fetches of a render fails, the render ends with the
\* error message alone: no dashboard, no aggregate of the record sets fetched
\* before the failure, and no second attempt in that render.
C11_FailedFetchEndsRender == []C11_State /\ [][C11_Step]_vars

\* the third fetch failed after two record sets had been fetched
C11_Witness ==
    /\ pc = "error"
    /\ err = "HTTPError"
    /\ idx = 3
    /\ Len(rets) = 2
    /\ rets[1].data # <<>>

\* two fractions are the same number (their denominators are positive)
SameNumber(a, b) == a.num * b.den = b.num * a.den

\* the percentage change of the specification
ClaimedPct(current, previous) ==
    IF previous > 0 THEN Fraction((current - previous) * 100, previous)
    ELSE IF current > 0 THEN Fraction(100, 1)
    ELSE Fraction(0, 1)

\* every row of the table has the claimed percentage in its Change % column
ClaimedRows(df) ==
    \A i \in DOMAIN df :
        SameNumber(df[i].ChangePct, ClaimedPct(df[i].CurrentRevenue, df[i].PreviousRevenue))

\* C12: every percentage change of the dashboard -- the two of the summary and
\* those of the customer, product and salesperson rows -- is
\* (current - previous) / previous * 100 when previous > 0, and otherwise 100 when
\* current > 0 and 0 when it is not.
C12_PercentageChanges ==
    pc = "dashboard" =>
        /\ SameNumber(shown.sales_change_percent,
                      ClaimedPct(shown.current_sales, shown.previous_sales))
        /\ SameNumber(shown.credit_change_percent,
                      ClaimedPct(shown.current_credit_total, shown.previous_credit_total))
        /\ ClaimedRows(shown.top_customers)
        /\ ClaimedRows(shown.growth)
        /\ ClaimedRows(shown.decline)
        /\ ClaimedRows(shown.top_products)
        /\ \A i \in DOMAIN shown.sp_comparison :
              SameNumber(shown.sp_comparison[i].ChangePct,
                         ClaimedPct(shown.sp_comparison[i].Revenue_current,
                                    shown.sp_comparison[i].Revenue_previous))

\* the records of a list that do not belong to Virtugroup or Fengrong
Purged(records) ==
    SelectSeq(records, LAMBDA record :
        ~ /\ "Customer" \in record.keys
          /\ "CustomerCode" \in record.Customer.keys
          /\ record.Customer.CustomerCode \in {"Virtugroup", "Fengrong"})

\* a record of one of the two excluded customers is in the list
HasExcluded(records) == Purged(records) # records

\* C15: records of the excluded customers Virtugroup and Fengrong contribute to
\* no value of a render: the dashboard of the loaded record sets is the dashboard
\* of the same sets with those customers' orders and credit notes taken out, and
\* no customer row is theirs.
C15_ExcludedContributeNothing ==
    pc = "dashboard" =>
        /\ \E customers \in Iterations(AllCustomers(Purged(all_current_orders),
                                                    Purged(all_previous_orders))),
              products \in Iterations(AllProducts(Purged(all_current_orders),
                                                  Purged(all_previous_orders))) :
              shown = Dashboard(Purged(all_current_orders), Purged(all_previous_orders),
                                Purged(all_current_credit_notes),
                                Purged(all_previous_credit_notes), customers, products)
        /\ \A df \in {shown.top_customers, shown.growth, shown.decline} :
              \A i \in DOMAIN df : df[i].code \notin {"Virtugroup", "Fengrong"}

\* a dashboard with all its tables, made from orders and credit notes among which
\* there are some of an excluded customer
C15_Witness ==
    /\ pc = "dashboard"
    /\ shown.raised = ""
    /\ shown.top_customers # <<>>
    /\ shown.top_products # <<>>
    /\ HasExcluded(all_current_orders)
    /\ HasExcluded(all_previous_orders)
    /\ HasExcluded(all_current_credit_notes)
    /\ shown.current_sales > 0

\* the elements of a sequence
Range(f) == {f[i] : i \in DOMAIN f}

HasCode(order) == "Customer" \in order.keys /\ "CustomerCode" \in order.Customer.keys

\* the group an order belongs to: its customer code, 'Unknown' when it has none
GroupOf(order) == IF HasCode(order) THEN order.Customer.CustomerCode ELSE "Unknown"

RECURSIVE SubTotalsOf(_, _)
\* the sum of SubTotal over the orders of one group
SubTotalsOf(orders, group) ==
    IF orders = <<>> THEN 0
    ELSE (IF GroupOf(Head(orders)) = group /\ "SubTotal" \in Head(orders).keys
            THEN Head(orders).SubTotal ELSE 0)
           + SubTotalsOf(Tail(orders), group)

RECURSIVE SumColumn(_, _)
\* the sum of one column of a table
SumColumn(df, column) ==
    IF df = <<>> THEN 0 ELSE Head(df)[column] + SumColumn(Tail(df), column)

\* a customer comparison has been computed from the loaded orders
CustomerTable == shown.what \in {"get_top_customers_comparison", "compare_customer_growth"}

\* C16: for every customer code occurring in the current or the previous orders
\* the comparison, before the top-N cut, has exactly one row; its Current Revenue
\* and Previous Revenue are the sums of SubTotal over that customer's orders of
\* each period (0 for a period with none), its Change is their difference, and
\* its Change % is Change / Previous Revenue * 100 when Previous Revenue > 0.
C16_OneRowPerCustomer ==
    CustomerTable =>
        \A code \in {order.Customer.CustomerCode :
                        order \in {o \in Range(all_current_orders)
                                           \cup Range(all_previous_orders) : HasCode(o)}} :
            \E i \in DOMAIN shown.comparison :
                LET row == shown.comparison[i]
                IN  /\ row.code = code
                    /\ \A j \in DOMAIN shown.comparison :
                          shown.comparison[j].code = code => j = i
                    /\ row.CurrentRevenue = SubTotalsOf(all_current_orders, code)
                    /\ row.PreviousRevenue = SubTotalsOf(all_previous_orders, code)
                    /\ row.Change = row.CurrentRevenue - row.PreviousRevenue
                    /\ row.PreviousRevenue > 0 =>
                          SameNumber(row.ChangePct,
                                     Fraction(row.Change * 100, row.PreviousRevenue))

\* the scenario of the specification: current orders of 100 and 50 and a previous
\* order of 100 of customer A, and the row 150, 100, 50, 50%
C16_Witness ==
    /\ shown.what = "get_top_customers_comparison"
    /\ Len(all_current_orders) = 2
    /\ Len(all_previous_orders) = 1
    /\ \A order \in Range(all_current_orders) \cup Range(all_previous_orders) :
          HasCode(order) /\ order.Customer.CustomerCode = "A"
    /\ all_current_orders[1].SubTotal = 100
    /\ all_current_orders[2].SubTotal = 50
    /\ all_previous_orders[1].SubTotal = 100
    /\ Len(shown.comparison) = 1
    /\ shown.comparison[1].CurrentRevenue = 150
    /\ shown.comparison[1].PreviousRevenue = 100
    /\ shown.comparison[1].Change = 50
    /\ SameNumber(shown.comparison[1].ChangePct, Fraction(50, 1))
    /\ shown.df = shown.comparison

\* C17: customer grouping partitions the orders by customer code, an order
\* without a code going to the one group 'Unknown': the groups are those of the
\* orders, each once, every group's revenue is the sum of SubTotal over its own
\* orders, and the revenues of all groups sum to calculate_total_sales.
C17_GroupsPartitionOrders ==
    CustomerTable =>
        /\ {shown.comparison[i].code : i \in DOMAIN shown.comparison}
             = {GroupOf(order) : order \in Range(all_current_orders)
                                             \cup Range(all_previous_orders)}
        /\ \A i, j \in DOMAIN shown.comparison :
              shown.comparison[i].code = shown.comparison[j].code => i = j
        /\ \A i \in DOMAIN shown.comparison :
              /\ shown.comparison[i].CurrentRevenue
                   = SubTotalsOf(all_current_orders, shown.comparison[i].code)
              /\ shown.comparison[i].PreviousRevenue
                   = SubTotalsOf(all_previous_orders, shown.comparison[i].code)
        /\ SumColumn(shown.comparison, "CurrentRevenue")
             = calculate_total_sales(all_current_orders)
        /\ SumColumn(shown.comparison, "PreviousRevenue")
             = calculate_total_sales(all_previous_orders)

\* a grouping of two current orders, one of them without a customer code, into
\* the groups 'Unknown' and A
C17_Witness ==
    /\ CustomerTable
    /\ Len(all_current_orders) = 2
    /\ \E order \in Range(all_current_orders) : ~HasCode(order)
    /\ \E order \in Range(all_current_orders) :
          HasCode(order) /\ order.Customer.CustomerCode = "A"
    /\ {shown.comparison[i].code : i \in DOMAIN shown.comparison} = {"Unknown", "A"}
    /\ SumColumn(shown.comparison, "CurrentRevenue") = 150

RECURSIVE TotalSubTotal(_)
\* the sum of SubTotal over all the orders
TotalSubTotal(orders) ==
    IF orders = <<>> THEN 0
    ELSE (IF "SubTotal" \in Head(orders).keys THEN Head(orders).SubTotal ELSE 0)
           + TotalSubTotal(Tail(orders))

\* C18: get_salesperson_revenue omits and duplicates no order: the Revenue of its
\* rows sums to the total SubTotal of the input orders and their Orders sum to
\* the number of input orders.
C18_NoOrderOmitted ==
    shown.what = "get_salesperson_revenue" =>
        /\ SumColumn(shown.df, "Revenue") = TotalSubTotal(shown.orders)
        /\ SumColumn(shown.df, "Orders") = Len(shown.orders)

HasSalesperson(order) == "SalesPerson" \in order.keys /\ "Guid" \in order.SalesPerson.keys

\* the salesperson ids that have an order in the list
SalespersonIds(orders) == {order.SalesPerson.Guid : order \in {o \in Range(orders) : HasSalesperson(o)}}

RECURSIVE RevenueOfId(_, _)
\* the sum of SubTotal over the orders of one salesperson id
RevenueOfId(orders, id) ==
    IF orders = <<>> THEN 0
    ELSE (IF HasSalesperson(Head(orders)) /\ Head(orders).SalesPerson.Guid = id
            THEN Head(orders).SubTotal ELSE 0)
           + RevenueOfId(Tail(orders), id)

\* C19: the salesperson comparison of a render has exactly one row for each
\* salesperson id that has an order in the current or the previous period, with
\* revenue 0 for a period without orders of that id, and the revenues of the row
\* are the sums for that id alone.
C19_OneRowPerSalesperson ==
    pc = "dashboard" =>
        LET current_orders == Purged(all_current_orders)
            previous_orders == Purged(all_previous_orders)
            ids == SalespersonIds(current_orders) \cup SalespersonIds(previous_orders)
        IN  /\ Len(shown.sp_comparison) = Cardinality(ids)
            /\ \A id \in ids :
                  \E i \in DOMAIN shown.sp_comparison :
                      /\ shown.sp_comparison[i].Revenue_current
                           = RevenueOfId(current_orders, id)
                      /\ shown.sp_comparison[i].Revenue_previous
                           = RevenueOfId(previous_orders, id)

\* the up-to-n rows with the largest positive Change, largest first
LargestPositive(comparison, n) ==
    nlargest(SelectSeq(comparison, LAMBDA row : row.Change > 0), n, "Change")

\* the up-to-n rows with the most negative Change, most negative first
MostNegative(comparison, n) ==
    nsmallest(SelectSeq(comparison, LAMBDA row : row.Change < 0), n, "Change")

\* C20: compare_customer_growth returns as growth the up-to-limit comparison rows
\* with the largest positive Change, in descending order of Change, and as
\* decline the up-to-limit rows with the most negative Change, in ascending
\* order: no row whose Change is not positive is a growth row, and no row whose
\* Change is not negative is a decline row.
C20_GrowthAndDecline ==
    (shown.what = "compare_customer_growth" /\ shown.raised = "") =>
        /\ shown.growth = LargestPositive(shown.comparison, shown.n)
        /\ shown.decline = MostNegative(shown.comparison, shown.n)

\* the calendar days of the year of t and of the year before
DaysAround(t) ==
    {u \in [y : {t.y - 1, t.y}, m : 1..12, d : 1..31] : u.d <= LastDayOf(u.y, u.m)}

\* C26: in monthly and in quarterly mode, for every reference date, the previous
\* period ends before the current period starts, so that no calendar day belongs
\* to both windows.
C26_PeriodsDoNotOverlap ==
    pc = "periods" =>
        \E start \in {Date(today.y, m, 1) : m \in 1..12} :
            /\ dates.current_start = Strftime(start)
            /\ \E end \in DaysAround(start) :
                  /\ dates.previous_end = Strftime(end)
                  /\ Ordinal(end) < Ordinal(start)

\* a top-N table has been computed from the loaded orders
TopTable ==
    /\ shown.what \in {"get_top_customers_comparison", "get_top_products_comparison"}
    /\ shown.raised = ""

FirstAppearance(group) ==
    LET orders == all_current_orders \o all_previous_orders
    IN  CHOOSE i \in DOMAIN orders :
            /\ GroupOf(orders[i]) = group
            /\ \A j \in 1..i - 1 : GroupOf(orders[j]) # group

\* rows of the table with the same value in the column are in the order in which
\* their groups first appear in the input
TiesByFirstAppearance(df, column) ==
    \A i, j \in DOMAIN df :
        (i < j /\ df[i][column] = df[j][column]) =>
            FirstAppearance(df[i].code) < FirstAppearance(df[j].code)

\* C24: the aggregation results are determined by the input: rows with an equal
\* ranking value appear in the order of their group's first appearance in the
\* input records, so that two runs on the same input return the same rows in the
\* same order.
C24_TiesInInputOrder ==
    /\ (shown.what = "get_top_customers_comparison" /\ shown.raised = "") =>
          TiesByFirstAppearance(shown.df, "CurrentRevenue")
    /\ (shown.what = "compare_customer_growth" /\ shown.raised = "") =>
          /\ TiesByFirstAppearance(shown.growth, "Change")
          /\ TiesByFirstAppearance(shown.decline, "Change")

\* the SubTotal values the records carry, with 0 for a record that carries none
SubTotalColumn(records) ==
    [i \in DOMAIN records |->
        [SubTotal |-> IF "SubTotal" \in records[i].keys THEN records[i].SubTotal ELSE 0]]

\* C25: calculate_total_sales and calculate_total_credit_notes return the sum of
\* the SubTotal field over all the records given, a record without SubTotal
\* counting as 0, and 0 for an empty list.
C25_TotalIsSumOfSubTotals ==
    shown.what \in {"calculate_total_sales", "calculate_total_credit_notes"} =>
        /\ shown.total = SumColumn(SubTotalColumn(shown.records), "SubTotal")
        /\ shown.records = <<>> => shown.total = 0

\* the total of an order of 50 and an order without SubTotal is 50
C25_Witness ==
    /\ shown.what = "calculate_total_sales"
    /\ Len(shown.records) = 2
    /\ \E i \in DOMAIN shown.records : "SubTotal" \notin shown.records[i].keys
    /\ \E i \in DOMAIN shown.records :
          "SubTotal" \in shown.records[i].keys /\ shown.records[i].SubTotal = 50
    /\ shown.total = 50

\* no order of either period is left after the exclusion filter
NoOrdersLeft == Purged(all_current_orders) = <<>> /\ Purged(all_previous_orders) = <<>>

\* C28: when there are no orders in either period after the exclusion filter the
\* render still completes: the summary shows zero totals, and
\* get_top_customers_comparison, compare_customer_growth and
\* get_top_products_comparison return empty results and do not raise.
C28_EmptyPeriodsRender ==
    /\ (pc = "dashboard" /\ NoOrdersLeft) =>
          /\ shown.current_sales = 0
          /\ shown.orders_completed = 0
          /\ shown.raised = ""
          /\ shown.top_customers = <<>>
          /\ shown.growth = <<>>
          /\ shown.decline = <<>>
          /\ shown.top_products = <<>>
    /\ (shown.what \in {"get_top_customers_comparison", "compare_customer_growth",
                        "get_top_products_comparison"}
          /\ all_current_orders = <<>> /\ all_previous_orders = <<>>) =>
          shown.raised = ""

\* the value is there: the object holds the key, and not with 0
Available(d, k) == k \in d.keys /\ d[k] # 0

\* the unit cost of the specification: the first available of the line's UnitCost,
\* its product's DefaultPurchasePrice, its product's AverageLandPrice and the
\* catalog cost of the product code, and otherwise 0
FirstAvailableCost(line, products_list) ==
    LET priced == {i \in DOMAIN products_list :
                      /\ products_list[i].ProductCode = line.Product.ProductCode
                      /\ \A j \in DOMAIN products_list :
                            products_list[j].ProductCode = line.Product.ProductCode => j <= i}
    IN  IF Available(line, "UnitCost") THEN line.UnitCost
        ELSE IF Available(line.Product, "DefaultPurchasePrice")
          THEN line.Product.DefaultPurchasePrice
        ELSE IF Available(line.Product, "AverageLandPrice")
          THEN line.Product.AverageLandPrice
        ELSE IF \E i \in priced : Available(products_list[i], "DefaultPurchasePrice")
          THEN products_list[CHOOSE i \in priced : TRUE].DefaultPurchasePrice
        ELSE 0

RECURSIVE MarginOf(_, _, _)
\* the sum of LineTotal - OrderQuantity * unit cost over the lines of one product
MarginOf(lines, products_list, code) ==
    IF lines = <<>> THEN 0
    ELSE (IF Head(lines).Product.ProductCode = code
            THEN Head(lines).LineTotal
                   - Head(lines).OrderQuantity * FirstAvailableCost(Head(lines), products_list)
            ELSE 0)
           + MarginOf(Tail(lines), products_list, code)

\* C23: for each order line the unit cost used by
\* get_top_products_by_margin_comparison is the first available of the line's own
\* UnitCost, the line product's DefaultPurchasePrice, the line product's
\* AverageLandPrice and the catalog cost of the product code, and otherwise 0; the
\* line's margin is LineTotal - OrderQuantity * unit cost, and a product's margin
\* is the sum of the margins of its lines.
C23_MarginFromFirstAvailableCost ==
    shown.what = "get_top_products_by_margin_comparison" =>
        \A i \in DOMAIN shown.comparison :
            LET row == shown.comparison[i]
            IN  /\ row.CurrentMargin
                     = MarginOf(AllLines(all_current_orders), shown.products_list, row.code)
                /\ row.PreviousMargin
                     = MarginOf(AllLines(all_previous_orders), shown.products_list, row.code)

\* the margin of P1 from two lines of 2 units for 50: one that finds its unit cost
\* 4 in the product's default purchase price, its own being 0, and one that finds
\* it, 6, in the catalog only: (50 - 8) + (50 - 12)
C23_Witness ==
    /\ shown.what = "get_top_products_by_margin_comparison"
    /\ Len(all_current_orders) = 2
    /\ LET lines == AllLines(all_current_orders)
       IN  /\ "UnitCost" \in lines[1].keys
           /\ lines[1].UnitCost = 0
           /\ lines[1].Product.DefaultPurchasePrice = 4
           /\ "UnitCost" \notin lines[2].keys
           /\ lines[2].Product.ProductCode = "P1"
           /\ "DefaultPurchasePrice" \notin lines[2].Product.keys
    /\ Len(shown.products_list) = 1
    /\ "DefaultPurchasePrice" \in shown.products_list[1].keys
    /\ Len(shown.comparison) = 1
    /\ shown.comparison[1].CurrentMargin = 80

\* the quotients in the rows of a table
Quotients(df) ==
    {df[i].ChangePct : i \in DOMAIN df}
      \cup {df[i].MarginPct : i \in {j \in DOMAIN df : "MarginPct" \in DOMAIN df[j]}}

\* all quotients that went into what is shown
AllQuotients ==
    IF shown.what = "dashboard"
      THEN {shown.sales_change_percent, shown.credit_change_percent,
            shown.average_order_value}
             \cup Quotients(shown.top_customers) \cup Quotients(shown.growth)
             \cup Quotients(shown.decline) \cup Quotients(shown.sp_comparison)
             \cup Quotients(shown.top_products)
    ELSE IF shown.what \in {"get_top_customers_comparison", "compare_customer_growth",
                            "get_top_products_comparison",
                            "get_top_products_by_margin_comparison"}
      THEN Quotients(shown.comparison)
    ELSE {}

\* C30: no render divides by zero: every percentage change, margin percentage
\* and average order value is divided by a divisor greater than 0, for all record
\* lists, empty ones and ones with zero or negative sums included.
C30_NoDivisionByZero == \A quotient \in AllQuotients : quotient.den > 0

\* a dashboard of a negative current total, of no previous order and of a
\* negative previous credit total
C30_Witness ==
    /\ pc = "dashboard"
    /\ shown.current_sales < 0
    /\ shown.previous_sales = 0
    /\ shown.orders_completed > 0
    /\ shown.previous_credit_total < 0
    /\ shown.top_customers # <<>>

\* every response get_all_pages has got so far reports a NumberOfPages
AllReport == \A i \in 1..Len(log) : RespOk(log[i].resp) /\ RespHasPages(log[i].resp)

\* the largest NumberOfPages reported so far, and at least 1
MostPages ==
    LET reported == {RespPages(log[i].resp) : i \in 1..Len(log)} \cup {1}
    IN  CHOOSE b \in reported : \A c \in reported : c <= b

\* C29: if every response reports a NumberOfPages of at most B, get_all_pages
\* ends after at most max(1, B) requests, whatever the Items lists contain: it
\* has sent no more than that many, and after that many it sends no other.
C29_RequestsBounded ==
    AllReport =>
        /\ Len(log) <= MostPages
        /\ Len(log) = MostPages => pc # "request"

\* get_all_pages has returned after two requests, the number of pages that both
\* responses reported
C29_Witness ==
    /\ PagesReturned
    /\ AllReport
    /\ Len(log) = 2
    /\ RespPages(log[1].resp) = 2
    /\ RespPages(log[2].resp) = 2

\* the text after the '?' of a URL
AfterQuestionMark(url) ==
    LET at == CHOOSE i \in DOMAIN url : url[i] = "?" /\ \A j \in 1..i - 1 : url[j] # "?"
    IN  SubSeq(url, at + 1, Len(url))

\* the query string a fetch operation is to send for a page
QueryOf(o, n) ==
    (IF o.name = "get_sales_orders"
       THEN <<"completedAfter", "=", o.start, "&", "completedBefore", "=", o.end, "&",
              "orderStatus", "=", "Completed", "&">>
     ELSE IF o.name = "get_credit_notes"
       THEN <<"startDate", "=", o.start, "&", "endDate", "=", o.end, "&">>
     ELSE <<>>)
      \o <<"page", "=", Digit(n)>>

\* C22: for every request sent to the upstream API the signed message is exactly
\* the URL-encoded query string that is placed after '?' in the request URL, the
\* path excluded and the page parameter included, keyed with the API key, and the
\* request carries that signature in api-auth-signature together with the
\* identifier in api-auth-id.
C22_SignedQueryString ==
    \A i \in 1..Len(log) :
        LET req == log[i].req
            signed == req.headers.api_auth_signature.base64
        IN  /\ \E j \in DOMAIN req.url : req.url[j] = "?"
            /\ signed.message = AfterQuestionMark(req.url)
            /\ signed.message = QueryOf(op, log[i].page)
            /\ req.url = <<"https://api.unleashedsoftware.com", Endpoint(op), "?">>
                           \o signed.message
            /\ signed.hmac = "sha256"
            /\ signed.key = api_key
            /\ req.headers.api_auth_id = api_id

\* the request for the second page of the sales orders of a period
C22_Witness ==
    /\ Len(log) = 2
    /\ op.name = "get_sales_orders"
    /\ log[2].req.url[Len(log[2].req.url)] = "2"
    /\ log[2].req.headers.api_auth_signature.base64.message
         = <<"completedAfter", "=", op.start, "&", "completedBefore", "=", op.end, "&",
             "orderStatus", "=", "Completed", "&", "page", "=", "2">>

\* the complete lists the file that load_from_cache has open held when it was
\* opened and holds now
ListsWritten == {e.data : e \in {e \in {held.at, Inode} : e.st = "ok"}}

\* what load_from_cache hands back is one of the lists that were written
C27_Step ==
    (pc = "load" /\ rets' # rets) => \E data \in ListsWritten : Returns("cache", data)

====
